---------------------------- MODULE Spec2Model ----------------------------
(***************************************************************************)
(* golox: the resolver (package semantic), the environment (package env),  *)
(* the callables and the tree-walking evaluator (package interpreter) and  *)
(* the command-line driver (package main), as a state machine.             *)
(*                                                                         *)
(* An input is the statement list the parser returns for one source text,  *)
(* together with the number of errors the scanner and the parser log for   *)
(* it.  Every source text is a single line, so every token has Line = 1.   *)
(***************************************************************************)
EXTENDS Integers, Sequences, FiniteSets, TLC

VARIABLES mode, pc, src, statements, resolution, st, stderr,
          parseHadError, runtimeHadError, semanticHadError,
          exitCode, idx, reportLeft, linesRead

vars == <<mode, pc, src, statements, resolution, st, stderr,
          parseHadError, runtimeHadError, semanticHadError,
          exitCode, idx, reportLeft, linesRead>>

(***************************************************************************)
(* Bounds of the model.                                                    *)
(***************************************************************************)
\* lines the prompt reads before its input ends
MaxLines == 3
\* iterations a while/for loop of an input may make
MaxIter == 10

(***************************************************************************)
(* Runtime values (interface{} in the Go code).                            *)
(***************************************************************************)
GoNil == [t |-> "nil"]
Bool(b) == [t |-> "bool", b |-> b]
Num(n) == [t |-> "float64", n |-> n]
GoInt(i) == [t |-> "int", i |-> i]
Str(s) == [t |-> "string", s |-> s]
FnV(id) == [t |-> "UserFunction", id |-> id]
NativeV(name) == [t |-> "NativeFunction", name |-> name]
ClassV(id) == [t |-> "Class", id |-> id]
InstV(id) == [t |-> "ClassInstance", id |-> id]
needsInitialization == [t |-> "uninitialized"]

EmptyMap == [x \in {} |-> GoNil]
MapPut(m, key, v) == (key :> v) @@ m

(***************************************************************************)
(* Errors: Go's error values, the three control-flow signals, and a panic  *)
(* (which unwinds every caller and ends the process).                      *)
(***************************************************************************)
NoErr == [k |-> "nil"]
Errorf(msg) == [k |-> "error", msg |-> msg]
returnError(v) == [k |-> "returnError", value |-> v]
breakError == [k |-> "breakError"]
continueError == [k |-> "continueError"]
Panic(msg) == [k |-> "panic", msg |-> msg]

Line == 1
Make(message) == Errorf(message \o "\n[line " \o ToString(Line) \o "]")

R(s, v, err) == [st |-> s, v |-> v, err |-> err]

(***************************************************************************)
(* AST nodes as the parser builds them.  Fields the parser does not set    *)
(* have Go's zero value.  id stands for the address of a declaration       *)
(* statement (the key of the Unused map).                                  *)
(***************************************************************************)
NNil == [k |-> "nil"]
NLiteral(v) == [k |-> "Literal", Value |-> v]
NGrouping(e) == [k |-> "Grouping", Expression |-> e]
NUnary(op, right) == [k |-> "Unary", Operator |-> op, Right |-> right]
NBinary(left, op, right) == [k |-> "Binary", Left |-> left, Operator |-> op, Right |-> right]
NLogical(left, op, right) == [k |-> "Logical", Left |-> left, Operator |-> op, Right |-> right]
NTernary(c, a, b) == [k |-> "Ternary", Condition |-> c, Then |-> a, Else |-> b]
NVariable(name) == [k |-> "Variable", Name |-> name, EnvIndex |-> -1, EnvDepth |-> -1]
NSuperClassName(name) == [k |-> "Variable", Name |-> name, EnvIndex |-> 0, EnvDepth |-> 0]
NAssign(name, value) == [k |-> "Assign", Name |-> name, Value |-> value, EnvIndex |-> -1, EnvDepth |-> -1]
NCall(callee, args) == [k |-> "Call", Callee |-> callee, Arguments |-> args]
NGet(e, name) == [k |-> "Get", Expression |-> e, Name |-> name]
NSet(obj, name, value) == [k |-> "Set", Object |-> obj, Name |-> name, Value |-> value]
NThis == [k |-> "This", Keyword |-> "this", EnvIndex |-> -1, EnvDepth |-> -1]
NSuper(method) == [k |-> "Super", Keyword |-> "super", Method |-> method, EnvDepth |-> 0]

NExpression(e) == [k |-> "Expression", Expression |-> e]
NPrint(e) == [k |-> "Print", Expression |-> e]
NVar(id, name, init) == [k |-> "Var", id |-> id, Name |-> name, Initializer |-> init, EnvIndex |-> -1]
NBlock(stmts) == [k |-> "Block", Statements |-> stmts, EnvSize |-> 0]
NIf(c, a, b) == [k |-> "If", Condition |-> c, ThenBranch |-> a, ElseBranch |-> b]
NWhile(c, body) == [k |-> "While", Condition |-> c, Statement |-> body]
NFor(init, c, incr, body) ==
    [k |-> "For", Initializer |-> init, Condition |-> c, Increment |-> incr, Statement |-> body]
NReturn(value) == [k |-> "Return", Value |-> value]
NBreak == [k |-> "Break"]
NContinue == [k |-> "Continue"]
\* "fun name(params) { body }", or a method "name(params) { body }"
NFunction(id, name, params, body) ==
    [k |-> "Function", id |-> id, Name |-> name, Params |-> params, ParamsNil |-> FALSE,
     Body |-> body, EnvSize |-> 0, EnvIndex |-> -1, IsClassMethod |-> FALSE]
\* a method declared without a parameter list: "name { body }"
NProperty(name, body) ==
    [k |-> "Function", id |-> 0, Name |-> name, Params |-> <<>>, ParamsNil |-> TRUE,
     Body |-> body, EnvSize |-> 0, EnvIndex |-> -1, IsClassMethod |-> FALSE]
\* "class name(params) { body }" inside a class body
NClassMethod(name, params, body) ==
    [k |-> "Function", id |-> 0, Name |-> name, Params |-> params, ParamsNil |-> FALSE,
     Body |-> body, EnvSize |-> 0, EnvIndex |-> -1, IsClassMethod |-> TRUE]
NClass(id, name, super, methods, classmethods) ==
    [k |-> "Class", id |-> id, Name |-> name, SuperClass |-> super, Methods |-> methods,
     ClassMethods |-> classmethods, EnvIndex |-> 0]

\* declarations of which none counts as a getter
IsPropertyNever(f) == FALSE

\* ast.Function.IsProperty: the declaration has no parameter list
IsProperty(f) == f.ParamsNil

(***************************************************************************)
(* package semantic: the resolver.                                         *)
(* A resolver step takes the node and the Resolver (with the Resolution's  *)
(* Unused set) and yields the annotated node, the Resolver afterwards and  *)
(* the error ("" is Go's nil error).                                       *)
(***************************************************************************)
vDeclared == 0
vDefined == 1

ftNone == 0
ftFunction == 1
ftMethod == 2
ftInitializer == 3

ctNone == 0
ctClass == 1

\* the key of the Unused map: the declaration statement (its address, and
\* what run reads through it)
StmtOf(n) == [id |-> n.id, k |-> n.k, Name |-> n.Name]
NoStmt == [id |-> 0, k |-> "nil", Name |-> ""]

MaxOf(S) == CHOOSE x \in S : \A y \in S : y <= x

\* Only({e : x \in {v}}) is e with x bound to the value v, computed once
Only(S) == CHOOSE x \in S : TRUE

\* index (from 0) of the last entry of the scope with that name, or -1
scopeLookup(name, scope) ==
    LET hits == {i \in 1..Len(scope) : scope[i].name = name}
    IN IF hits = {} THEN -1 ELSE MaxOf(hits) - 1

NewResolver == [scopes |-> <<>>, currentFunction |-> ftNone, currentClass |-> ctNone,
                Unused |-> {}]

pushScope(r) == [r EXCEPT !.scopes = Append(@, <<>>)]

\* stmtKind is the dynamic type of the statement whose scope ends
popScope(stmtKind, r) ==
    LET top == r.scopes[Len(r.scopes)]
        found == {top[i].stmt : i \in {j \in 1..Len(top) : ~top[j].isUsed /\ top[j].stmt # NoStmt}}
    IN [r |-> [r EXCEPT !.scopes = SubSeq(@, 1, Len(@) - 1), !.Unused = @ \cup found],
        size |-> Len(top)]

\* a popScope that adds the size of the scope to the EnvSize the node has
AddEnvSize(stmt, size) == [stmt EXCEPT !.EnvSize = @ + size]

\* the end of popScope: block.EnvSize = len(top), function.EnvSize = len(top)
SetEnvSize(stmt, size) == [stmt EXCEPT !.EnvSize = size]

\* node is NoStmt (nil) for function parameters
declare(name, node, r) ==
    IF Len(r.scopes) # 0
    THEN LET scope == r.scopes[Len(r.scopes)]
             index == scopeLookup(name, scope)
         IN IF index >= 0
            THEN [index |-> 0, r |-> r,
                  err |-> "Variable '" \o name \o "' already declared in this scope."]
            ELSE [index |-> Len(scope), err |-> "",
                  r |-> [r EXCEPT !.scopes[Len(r.scopes)] =
                           Append(scope, [name |-> name, status |-> vDeclared,
                                          isUsed |-> FALSE, stmt |-> node])]]
    ELSE [index |-> -1, r |-> r, err |-> ""]

\* only called after a successful declare of the same name
define(name, r) ==
    IF Len(r.scopes) # 0
    THEN LET index == scopeLookup(name, r.scopes[Len(r.scopes)])
         IN IF index >= 0
            THEN [r EXCEPT !.scopes[Len(r.scopes)][index + 1].status = vDefined]
            ELSE r
    ELSE r

resolveLocal(name, r) ==
    LET hits == {i \in 1..Len(r.scopes) : scopeLookup(name, r.scopes[i]) >= 0}
    IN IF hits = {}
       THEN [index |-> -1, depth |-> -1, r |-> r]
       ELSE LET i == MaxOf(hits)
                index == scopeLookup(name, r.scopes[i])
            IN [index |-> index, depth |-> Len(r.scopes) - i,
                r |-> [r EXCEPT !.scopes[i][index + 1].isUsed = TRUE]]

RS(n, r, err) == [n |-> n, r |-> r, err |-> err]

RECURSIVE resolve(_, _)
RECURSIVE resolveStatements(_, _)
RECURSIVE resolveFunction(_, _, _)
RECURSIVE resolveParams(_, _, _)
RECURSIVE resolveMethods(_, _)

\* the loop over function.Params in resolveFunction, from parameter i on
resolveParams(params, i, r) ==
    IF i > Len(params) THEN [r |-> r, err |-> ""]
    ELSE LET d == declare(params[i], NoStmt, r)
         IN IF d.err # "" THEN [r |-> d.r, err |-> d.err]
            ELSE resolveParams(params, i + 1, define(params[i], d.r))

resolveFunction(function, r, ftype) ==
    \* p: the parameters, b: the body, q: the deferred popScope(function, res);
    \* the deferred resetCurrentFunction() restores r.currentFunction
    Only({Only({Only({
        RS(SetEnvSize([function EXCEPT !.Body = b.n], q.size),
           [q.r EXCEPT !.currentFunction = r.currentFunction], b.err)
        : q \in {popScope("Function", b.r)}})
        : b \in {IF p.err # "" THEN [n |-> function.Body, r |-> p.r, err |-> p.err]
                 ELSE resolveStatements(function.Body, p.r)}})
        : p \in {IF ~IsProperty(function)
                 THEN resolveParams(function.Params, 1,
                                    pushScope([r EXCEPT !.currentFunction = ftype]))
                 ELSE [r |-> pushScope([r EXCEPT !.currentFunction = ftype]),
                       err |-> ""]}})

resolveStatements(stmts, r) ==
    IF stmts = <<>> THEN RS(<<>>, r, "")
    ELSE Only({IF h.err # "" THEN RS(<<h.n>> \o Tail(stmts), h.r, h.err)
               ELSE Only({RS(<<h.n>> \o t.n, t.r, t.err)
                          : t \in {resolveStatements(Tail(stmts), h.r)}})
               : h \in {resolve(Head(stmts), r)}})

\* a resolver for which init is a method like any other
methodDeclarationPlain(method) == ftMethod

\* the function type the Class case resolves a method with
methodDeclaration(method) == IF method.Name = "init" THEN ftInitializer ELSE ftMethod

\* the loop over n.Methods in the Class case
resolveMethods(methods, r) ==
    IF methods = <<>> THEN RS(<<>>, r, "")
    ELSE Only({IF h.err # "" THEN RS(<<h.n>> \o Tail(methods), h.r, h.err)
               ELSE Only({RS(<<h.n>> \o t.n, t.r, t.err)
                          : t \in {resolveMethods(Tail(methods), h.r)}})
               : h \in {resolveFunction(Head(methods), r, methodDeclaration(Head(methods)))}})

\* resolve two children in order, stopping at the first error
Resolve2(a, b, r) ==
    Only({IF x.err # "" THEN [a |-> x.n, b |-> b, r |-> x.r, err |-> x.err]
          ELSE Only({[a |-> x.n, b |-> y.n, r |-> y.r, err |-> y.err]
                     : y \in {resolve(b, x.r)}})
          : x \in {resolve(a, r)}})

resolveFor(n, r) ==
    \* the first clause resolved is n.Increment, not n.Initializer
    \* a: n.Increment, c: n.Condition, i: n.Increment again, s: n.Statement
    Only({IF a.err # "" THEN RS([n EXCEPT !.Increment = a.n], a.r, a.err)
          ELSE Only({
             IF c.err # "" THEN RS([n EXCEPT !.Increment = a.n, !.Condition = c.n], c.r, c.err)
             ELSE Only({
                IF i.err # ""
                THEN RS([n EXCEPT !.Increment = i.n, !.Condition = c.n], i.r, i.err)
                ELSE Only({RS([n EXCEPT !.Increment = i.n, !.Condition = c.n,
                                        !.Statement = s.n], s.r, s.err)
                           : s \in {resolve(n.Statement, i.r)}})
                : i \in {resolve(a.n, c.r)}})
             : c \in {resolve(n.Condition, a.r)}})
          : a \in {resolve(n.Increment, r)}})

resolveClass(n, r) ==
    \* d: declare(n.Name, n); m: the methods, resolved in a new scope that
    \* holds "this"; q: the deferred popScope(n, res); the deferred
    \* resetCurrentClass() restores r.currentClass
    Only({IF d.err # "" THEN RS(n, [d.r EXCEPT !.currentClass = r.currentClass], d.err)
          ELSE Only({Only({
               RS([n EXCEPT !.EnvIndex = d.index, !.Methods = m.n],
                  [q.r EXCEPT !.currentClass = r.currentClass], m.err)
               : q \in {popScope("Class", m.r)}})
               : m \in {resolveMethods(n.Methods,
                           [pushScope(define(n.Name, d.r)) EXCEPT !.scopes[Len(d.r.scopes) + 1] =
                               <<[name |-> "this", status |-> vDefined,
                                  isUsed |-> TRUE, stmt |-> NoStmt]>>])}})
          : d \in {declare(n.Name, StmtOf(n), [r EXCEPT !.currentClass = ctClass])}})

resolveCall(n, r) ==
    Only({IF c.err # "" THEN RS([n EXCEPT !.Callee = c.n], c.r, c.err)
          ELSE Only({RS([n EXCEPT !.Callee = c.n, !.Arguments = a.n], a.r, a.err)
                     : a \in {resolveStatements(n.Arguments, c.r)}})
          : c \in {resolve(n.Callee, r)}})

resolve(n, r) ==
    CASE n.k = "Block" ->
            Only({Only({RS(SetEnvSize([n EXCEPT !.Statements = b.n], q.size), q.r, b.err)
                        : q \in {popScope("Block", b.r)}})
                  : b \in {resolveStatements(n.Statements, pushScope(r))}})
      [] n.k = "Var" ->
            LET d == declare(n.Name, StmtOf(n), r)
            IN IF d.err # "" THEN RS(n, d.r, "")      \* "return nil": the error is dropped
               ELSE LET n1 == [n EXCEPT !.EnvIndex = d.index]
                        i == resolve(n.Initializer, d.r)
                    IN IF i.err # "" THEN RS([n1 EXCEPT !.Initializer = i.n], i.r, i.err)
                       ELSE RS([n1 EXCEPT !.Initializer = i.n], define(n.Name, i.r), "")
      [] n.k = "Variable" ->
            LET inOwnInit ==
                    /\ Len(r.scopes) # 0
                    /\ LET top == r.scopes[Len(r.scopes)]
                           index == scopeLookup(n.Name, top)
                       IN index >= 0 /\ top[index + 1].status = vDeclared
                l == resolveLocal(n.Name, r)
            IN IF inOwnInit
               THEN RS(n, r, "Cannot read local variable in its own initializer.")
               ELSE RS([n EXCEPT !.EnvIndex = l.index, !.EnvDepth = l.depth], l.r, "")
      [] n.k = "Assign" ->
            LET v == resolve(n.Value, r)
                l == resolveLocal(n.Name, v.r)
            IN IF v.err # "" THEN RS([n EXCEPT !.Value = v.n], v.r, v.err)
               ELSE RS([n EXCEPT !.Value = v.n, !.EnvIndex = l.index, !.EnvDepth = l.depth],
                       l.r, "")
      [] n.k = "Function" ->
            Only({IF d.err # "" THEN RS(n, d.r, d.err)
                  ELSE resolveFunction([n EXCEPT !.EnvIndex = d.index],
                                       define(n.Name, d.r), ftFunction)
                  : d \in {declare(n.Name, StmtOf(n), r)}})
      [] n.k \in {"Expression", "Print", "Grouping"} ->
            LET e == resolve(n.Expression, r)
            IN RS([n EXCEPT !.Expression = e.n], e.r, e.err)
      [] n.k = "If" ->
            Only({IF x.err # "" \/ n.ElseBranch = NNil
                  THEN RS([n EXCEPT !.Condition = x.a, !.ThenBranch = x.b], x.r, x.err)
                  ELSE LET e == resolve(n.ElseBranch, x.r)
                       IN RS([n EXCEPT !.Condition = x.a, !.ThenBranch = x.b,
                                       !.ElseBranch = e.n], e.r, e.err)
                  : x \in {Resolve2(n.Condition, n.ThenBranch, r)}})
      [] n.k = "Return" ->
            IF r.currentFunction = ftNone
            THEN RS(n, r, "Cannot return from top-level code.")
            ELSE IF n.Value # NNil
            THEN IF r.currentFunction = ftInitializer
                 THEN RS(n, r, "Cannot return a value from an initializer.")
                 ELSE LET v == resolve(n.Value, r)
                      IN RS([n EXCEPT !.Value = v.n], v.r, v.err)
            ELSE RS(n, r, "")
      [] n.k = "For" -> resolveFor(n, r)
      [] n.k = "While" ->
            Only({RS([n EXCEPT !.Condition = x.a, !.Statement = x.b], x.r, x.err)
                  : x \in {Resolve2(n.Condition, n.Statement, r)}})
      [] n.k \in {"Binary", "Logical"} ->
            Only({RS([n EXCEPT !.Left = x.a, !.Right = x.b], x.r, x.err)
                  : x \in {Resolve2(n.Left, n.Right, r)}})
      [] n.k = "Call" -> resolveCall(n, r)
      [] n.k = "Unary" ->
            LET x == resolve(n.Right, r)
            IN RS([n EXCEPT !.Right = x.n], x.r, x.err)
      [] n.k = "Class" -> resolveClass(n, r)
      [] n.k = "Get" ->
            LET e == resolve(n.Expression, r)
            IN RS([n EXCEPT !.Expression = e.n], e.r, e.err)
      [] n.k = "Set" ->
            Only({RS([n EXCEPT !.Value = x.a, !.Object = x.b], x.r, x.err)
                  : x \in {Resolve2(n.Value, n.Object, r)}})
      [] n.k = "This" ->
            IF r.currentClass = ctNone
            THEN RS(n, r, "Cannot use 'this' outside of a class.")
            ELSE LET l == resolveLocal(n.Keyword, r)
                 IN RS([n EXCEPT !.EnvIndex = l.index, !.EnvDepth = l.depth], l.r, "")
      \* Literal, Ternary, Super, Break, Continue and nil have no case
      [] OTHER -> RS(n, r, "")

\* Resolve: a new Resolution and a new Resolver, then resolveStatements
Resolve(stmts) ==
    LET x == resolveStatements(stmts, NewResolver)
    IN [statements |-> x.n, Unused |-> x.r.Unused, err |-> x.err]

(***************************************************************************)
(* package env.  The interpreter state s holds the environments, user      *)
(* functions, classes and instances ever allocated (a pointer is an index  *)
(* into the sequence, 0 is nil), the text written to options.Writer, the   *)
(* GlobalEnv pointer and the second the wall clock shows.                  *)
(***************************************************************************)
\* NewSized: a frame with an empty map and size nil slots
NewSized(s, enclosing, size) ==
    [st |-> [s EXCEPT !.envs = Append(@, [values |-> EmptyMap, enclosing |-> enclosing,
                                          indexedValues |-> [i \in 1..size |-> GoNil]])],
     env |-> Len(s.envs) + 1]

InRange(s, e, index) == e # 0 /\ index >= 0 /\ index < Len(s.envs[e].indexedValues)

\* Define and DefineUnitialized (value = needsInitialization): the state
\* afterwards and a panic if the slot does not exist
Define(s, e, name, value, index) ==
    IF e = 0 THEN [st |-> s, err |-> Panic("nil pointer dereference")]
    ELSE IF index = -1
    THEN [st |-> [s EXCEPT !.envs[e].values = MapPut(@, name, value)], err |-> NoErr]
    ELSE IF InRange(s, e, index)
    THEN [st |-> [s EXCEPT !.envs[e].indexedValues[index + 1] = value], err |-> NoErr]
    ELSE [st |-> s, err |-> Panic("index out of range")]

DefineUnitialized(s, e, name, index) == Define(s, e, name, needsInitialization, index)

RECURSIVE Get(_, _, _, _)
Get(s, e, name, index) ==
    IF e = 0 THEN [v |-> GoNil, err |-> Panic("nil pointer dereference")]
    ELSE IF index = -1
    THEN IF name \in DOMAIN s.envs[e].values
         THEN IF s.envs[e].values[name] = needsInitialization
              THEN [v |-> GoNil,
                    err |-> Make("Uninitialized variable access: '" \o name \o "'")]
              ELSE [v |-> s.envs[e].values[name], err |-> NoErr]
         ELSE IF s.envs[e].enclosing # 0
              THEN Get(s, s.envs[e].enclosing, name, index)
              ELSE [v |-> GoNil, err |-> Make("Undefined variable '" \o name \o "'")]
    ELSE IF InRange(s, e, index)
    THEN [v |-> s.envs[e].indexedValues[index + 1], err |-> NoErr]
    ELSE [v |-> GoNil, err |-> Panic("index out of range")]

\* Ancestor: distance steps up the chain; 0 (nil) when it steps past the root,
\* and every use of a nil frame panics
RECURSIVE Ancestor(_, _, _)
Ancestor(s, e, distance) ==
    IF distance <= 0 \/ e = 0 THEN e
    ELSE Ancestor(s, s.envs[e].enclosing, distance - 1)

GetAt(s, e, distance, name, index) == Get(s, Ancestor(s, e, distance), name, index)

RECURSIVE Assign(_, _, _, _, _)
\* an Assign that creates the variable in the outermost frame when no frame
\* of the chain has it
AssignCreates(s, e, name, index, value) ==
    IF e = 0 THEN [st |-> s, err |-> Panic("nil pointer dereference")]
    ELSE IF index = -1
    THEN IF name \in DOMAIN s.envs[e].values
         THEN [st |-> [s EXCEPT !.envs[e].values[name] = value], err |-> NoErr]
         ELSE IF s.envs[e].enclosing # 0
              THEN Assign(s, s.envs[e].enclosing, name, index, value)
              ELSE [st |-> [s EXCEPT !.envs[e].values = MapPut(@, name, value)],
                    err |-> NoErr]
    ELSE IF InRange(s, e, index)
    THEN [st |-> [s EXCEPT !.envs[e].indexedValues[index + 1] = value], err |-> NoErr]
    ELSE [st |-> s, err |-> Panic("index out of range")]

Assign(s, e, name, index, value) ==
    IF e = 0 THEN [st |-> s, err |-> Panic("nil pointer dereference")]
    ELSE IF index = -1
    THEN IF name \in DOMAIN s.envs[e].values
         THEN [st |-> [s EXCEPT !.envs[e].values[name] = value], err |-> NoErr]
         ELSE IF s.envs[e].enclosing # 0
              THEN Assign(s, s.envs[e].enclosing, name, index, value)
              ELSE [st |-> s, err |-> Make("Undefined variable '" \o name \o "'.")]
    ELSE IF InRange(s, e, index)
    THEN [st |-> [s EXCEPT !.envs[e].indexedValues[index + 1] = value], err |-> NoErr]
    ELSE [st |-> s, err |-> Panic("index out of range")]

AssignAt(s, e, distance, index, name, value) ==
    Assign(s, Ancestor(s, e, distance), name, index, value)

(***************************************************************************)
(* package interpreter: values, callables, classes.                        *)
(***************************************************************************)
operandMustBeANumber == "Operand must be a number"
operandsMustBeTwoNumbersOrTwoStrings == "Operands must be two numbers or two strings"

\* a truthiness for which the number 0 and the empty string are falsy too
isTruthyZero(val) ==
    IF val = GoNil THEN FALSE
    ELSE IF val.t = "bool" THEN val.b
    ELSE IF val.t = "float64" THEN val.n # 0
    ELSE IF val.t = "string" THEN val.s # ""
    ELSE TRUE

isTruthy(val) ==
    IF val = GoNil THEN FALSE
    ELSE IF val.t = "bool" THEN val.b
    ELSE TRUE

\* an equality for which nil equals every falsy value
isEqualFalsy(left, right) ==
    IF left = GoNil THEN ~isTruthy(right)
    ELSE left = right

isEqual(left, right) ==
    IF left = GoNil /\ right = GoNil THEN TRUE
    ELSE IF left = GoNil THEN FALSE
    ELSE left = right

\* logical operators that yield the left operand whenever it is falsy
returnsLeftIfFalsy(operator, left) == ~isTruthy(left)

\* the Logical case returns the left operand without evaluating the right one
returnsLeft(operator, left) ==
    IF operator = "or" THEN isTruthy(left)
    ELSE IF operator = "and" THEN ~isTruthy(left)
    ELSE FALSE

checkNumberOperand(value, msg) ==
    IF value.t \in {"int", "float64"} THEN NoErr
    ELSE Errorf(msg \o "\n[line " \o ToString(Line) \o "]")

\* what fmt.Fprintln writes for a value (numbers of the model are integral)
Stringify(s, v) ==
    CASE v.t = "nil" -> "<nil>"
      [] v.t = "bool" -> IF v.b THEN "true" ELSE "false"
      [] v.t = "float64" -> ToString(v.n)
      [] v.t = "int" -> ToString(v.i)
      [] v.t = "string" -> v.s
      [] v.t = "UserFunction" -> s.fns[v.id].Definition.Name
      [] v.t = "NativeFunction" -> "<native>"
      [] v.t = "Class" -> "<class " \o s.classes[v.id].Name \o ">"
      [] v.t = "ClassInstance" -> "<class-instance " \o s.classes[s.insts[v.id].Class].Name \o ">"
      [] v.t = "uninitialized" -> "&{}"

\* the interpreter state before any input: GlobalEnv is env.NewGlobal()
NewGlobal == [envs |-> <<[values |-> EmptyMap, enclosing |-> 0, indexedValues |-> <<>>]>>,
              fns |-> <<>>, classes |-> <<>>, insts |-> <<>>, out |-> <<>>,
              GlobalEnv |-> 1, now |-> 0]

\* globals.go init(): clock is defined in GlobalEnv
GlobalsInit(now) ==
    [NewGlobal EXCEPT !.envs[1].values = MapPut(@, "clock", NativeV("clock")), !.now = now]

NewUserFunction(s, def, closure, envSize) ==
    [st |-> [s EXCEPT !.fns = Append(@, [Definition |-> def, Closure |-> closure,
                                         IsInitializer |-> FALSE, envSize |-> envSize])],
     fn |-> Len(s.fns) + 1]

\* UserFunction.Bind: a frame holding "this" in slot 0 over the closure
Bind(s, u, instance) ==
    LET e == NewSized(s, s.fns[u].Closure, 1)
        d == Define(e.st, e.env, "this", InstV(instance), 0)
    IN [st |-> [d.st EXCEPT !.fns = Append(@, [s.fns[u] EXCEPT !.Closure = e.env])],
        fn |-> Len(s.fns) + 1]

UserFunctionArity(s, u) == Len(s.fns[u].Definition.Params)

\* a class arity that is "always 0", as the comment above Class.Arity has it
ClassArityZero(s, c) == 0

ClassArity(s, c) ==
    IF "init" \in DOMAIN s.classes[c].Methods
    THEN UserFunctionArity(s, s.classes[c].Methods["init"])
    ELSE 0

NativeArity(name) == 0

IsCallable(v) == v.t \in {"UserFunction", "NativeFunction", "Class"}

Arity(s, f) ==
    CASE f.t = "UserFunction" -> UserFunctionArity(s, f.id)
      [] f.t = "NativeFunction" -> NativeArity(f.name)
      [] f.t = "Class" -> ClassArity(s, f.id)

\* clock: time.Now().Second(), a Go int
NativeCall(s, name, arguments) == R(s, GoInt(s.now), NoErr)

\* Class.FindMethod: the class's own methods, then the superclass chain
RECURSIVE FindMethod(_, _, _)
FindMethod(s, c, name) ==
    IF name \in DOMAIN s.classes[c].Methods
    THEN [fn |-> s.classes[c].Methods[name], err |-> NoErr]
    ELSE IF s.classes[c].SuperClass # 0
    THEN FindMethod(s, s.classes[c].SuperClass, name)
    ELSE [fn |-> 0, err |-> Make("Undefined property '" \o name \o "'.")]

\* Class.Get: a field of the class, else a class method
ClassGet(s, c, name) ==
    IF name \in DOMAIN s.classes[c].Fields THEN R(s, s.classes[c].Fields[name], NoErr)
    ELSE IF name \in DOMAIN s.classes[c].MetaClass
    THEN R(s, FnV(s.classes[c].MetaClass[name]), NoErr)
    ELSE R(s, GoNil, Make("Undefined property '" \o name \o "'"))

ClassSet(s, c, name, value) ==
    R([s EXCEPT !.classes[c].Fields = MapPut(@, name, value)], GoNil, NoErr)

ClassInstanceSet(s, i, name, value) ==
    R([s EXCEPT !.insts[i].fields = MapPut(@, name, value)], GoNil, NoErr)

(***************************************************************************)
(* Eval and the calls it makes.  Every step yields the state afterwards,   *)
(* the value and the error.                                                *)
(***************************************************************************)
RECURSIVE Eval(_, _, _)
RECURSIVE EvalStatements(_, _, _)
RECURSIVE EvalArguments(_, _, _, _)
RECURSIVE ForLoop(_, _, _, _)
RECURSIVE WhileLoop(_, _, _, _)
RECURSIVE UserFunctionCall(_, _, _)
RECURSIVE UserFunctionBody(_, _, _, _)
RECURSIVE ClassCall(_, _, _)
RECURSIVE ClassInstanceGet(_, _, _)

\* the parameter loop of UserFunction.Call, from parameter i on
RECURSIVE DefineParams(_, _, _, _, _)
DefineParams(s, e, params, arguments, i) ==
    IF i > Len(params) THEN [st |-> s, err |-> NoErr]
    ELSE IF i > Len(arguments) THEN [st |-> s, err |-> Panic("index out of range")]
    ELSE LET d == Define(s, e, params[i], arguments[i], i - 1)
         IN IF d.err # NoErr THEN d
            ELSE DefineParams(d.st, e, params, arguments, i + 1)

\* the value a finished initializer yields: slot 0 of its closure
\* an initializer that returns nil like any other function
InitializerNil(s, u) == [v |-> GoNil, err |-> NoErr]

InitializerThis(s, u) == GetAt(s, s.fns[u].Closure, 0, "this", 0)

\* the statement loop of UserFunction.Call
\* a call that hands the return signal of its body on to its caller
UserFunctionBodyLeaks(s, u, e, stmts) ==
    IF stmts = <<>> THEN R(s, GoNil, NoErr)
    ELSE LET x == Eval(Head(stmts), e, s)
         IN IF x.err # NoErr THEN R(x.st, GoNil, x.err)
            ELSE UserFunctionBody(x.st, u, e, Tail(stmts))

UserFunctionBody(s, u, e, stmts) ==
    IF stmts = <<>>
    THEN IF s.fns[u].IsInitializer
         THEN LET t == InitializerThis(s, u) IN R(s, t.v, t.err)
         ELSE R(s, GoNil, NoErr)
    ELSE LET x == Eval(Head(stmts), e, s)
         IN IF x.err # NoErr
            THEN IF x.err.k = "returnError"
                 THEN IF x.st.fns[u].IsInitializer
                      THEN LET t == InitializerThis(x.st, u) IN R(x.st, t.v, t.err)
                      ELSE R(x.st, x.err.value, NoErr)
                 ELSE R(x.st, GoNil, x.err)
            ELSE UserFunctionBody(x.st, u, e, Tail(stmts))

UserFunctionCall(s, u, arguments) ==
    LET f == s.fns[u]
        e == NewSized(s, f.Closure, f.envSize)
        p == IF ~IsProperty(f.Definition)
             THEN DefineParams(e.st, e.env, f.Definition.Params, arguments, 1)
             ELSE [st |-> e.st, err |-> NoErr]
    IN IF p.err # NoErr THEN R(p.st, GoNil, p.err)
       ELSE UserFunctionBody(p.st, u, e.env, f.Definition.Body)

ClassCall(s, c, arguments) ==
    LET instance == Len(s.insts) + 1
        s1 == [s EXCEPT !.insts = Append(@, [Class |-> c, fields |-> EmptyMap])]
    IN IF "init" \in DOMAIN s1.classes[c].Methods
       THEN LET b == Bind(s1, s1.classes[c].Methods["init"], instance)
                x == UserFunctionCall(b.st, b.fn, arguments)
            IN IF x.err # NoErr THEN R(x.st, GoNil, x.err)
               ELSE R(x.st, InstV(instance), NoErr)
       ELSE R(s1, InstV(instance), NoErr)

Call(s, f, arguments) ==
    CASE f.t = "UserFunction" -> UserFunctionCall(s, f.id, arguments)
      [] f.t = "NativeFunction" -> NativeCall(s, f.name, arguments)
      [] f.t = "Class" -> ClassCall(s, f.id, arguments)

\* ClassInstance.Get: a field, else a method of the instance's own class
ClassInstanceGet(s, i, name) ==
    IF name \in DOMAIN s.insts[i].fields THEN R(s, s.insts[i].fields[name], NoErr)
    ELSE IF name \in DOMAIN s.classes[s.insts[i].Class].Methods
    THEN LET m == s.classes[s.insts[i].Class].Methods[name]
             newMethod == Bind(s, m, i)
         IN IF IsProperty(s.fns[m].Definition)
            THEN UserFunctionCall(newMethod.st, newMethod.fn, <<>>)
            ELSE LET again == Bind(newMethod.st, m, i)
                 IN R(again.st, FnV(again.fn), NoErr)
    ELSE R(s, GoNil, Make("Undefined property '" \o name \o "'"))

EvalStatements(stmts, e, s) ==
    IF stmts = <<>> THEN R(s, GoNil, NoErr)
    ELSE LET x == Eval(Head(stmts), e, s)
         IN IF x.err # NoErr THEN R(x.st, GoNil, x.err)
            ELSE EvalStatements(Tail(stmts), e, x.st)

\* the argument loop of a Call: the values so far are in args
\* a call that evaluates the arguments after a failing one as well
EvalArgumentsAll(exprs, e, s, args) ==
    IF exprs = <<>> THEN [st |-> s, args |-> args, err |-> NoErr]
    ELSE LET a == Eval(Head(exprs), e, s)
         IN IF a.err = NoErr THEN EvalArguments(Tail(exprs), e, a.st, Append(args, a.v))
            ELSE LET rest == EvalArguments(Tail(exprs), e, a.st, args)
                 IN [st |-> rest.st, args |-> args, err |-> a.err]

EvalArguments(exprs, e, s, args) ==
    IF exprs = <<>> THEN [st |-> s, args |-> args, err |-> NoErr]
    ELSE LET a == Eval(Head(exprs), e, s)
         IN IF a.err = NoErr THEN EvalArguments(Tail(exprs), e, a.st, Append(args, a.v))
            ELSE [st |-> a.st, args |-> args, err |-> a.err]

\* both operands passed checkNumberOperand; the assertions .(float64) follow
Arith(s, n, left, right) ==
    LET l == checkNumberOperand(left, operandMustBeANumber)
        r == checkNumberOperand(right, operandMustBeANumber)
        op == n.Operator
    IN IF l # NoErr THEN R(s, GoNil, l)
       ELSE IF r # NoErr THEN R(s, GoNil, r)
       ELSE IF left.t # "float64" \/ right.t # "float64"
       THEN R(s, GoNil, Panic("interface conversion: interface {} is int, not float64"))
       ELSE CASE op = "-" -> R(s, Num(left.n - right.n), NoErr)
              [] op = "*" -> R(s, Num(left.n * right.n), NoErr)
              [] op = ">" -> R(s, Bool(left.n > right.n), NoErr)
              [] op = ">=" -> R(s, Bool(left.n >= right.n), NoErr)
              [] op = "<" -> R(s, Bool(left.n < right.n), NoErr)
              [] op = "<=" -> R(s, Bool(left.n <= right.n), NoErr)
              \* the quotients and powers that are integers
              [] op = "/" /\ right.n > 0 /\ left.n % right.n = 0 ->
                    R(s, Num(left.n \div right.n), NoErr)
              [] op = "**" /\ right.n >= 0 -> R(s, Num(left.n ^ right.n), NoErr)

Plus(s, left, right) ==
    IF left.t = "float64" /\ right.t = "float64" THEN R(s, Num(left.n + right.n), NoErr)
    ELSE IF left.t = "string" /\ right.t = "string" THEN R(s, Str(left.s \o right.s), NoErr)
    ELSE R(s, GoNil, Errorf(operandsMustBeTwoNumbersOrTwoStrings))

EvalBinary(n, e, s) ==
    LET l == Eval(n.Left, e, s)
    IN IF l.err # NoErr THEN l
       ELSE LET r == Eval(n.Right, e, l.st)
            IN IF r.err # NoErr THEN r
               ELSE CASE n.Operator \in {"-", "*", "/", "**", ">", ">=", "<", "<="} ->
                           Arith(r.st, n, l.v, r.v)
                      [] n.Operator = "+" -> Plus(r.st, l.v, r.v)
                      [] n.Operator = "!=" -> R(r.st, Bool(~isEqual(l.v, r.v)), NoErr)
                      [] n.Operator = "==" -> R(r.st, Bool(isEqual(l.v, r.v)), NoErr)
                      [] n.Operator = "," ->
                           \* both operands are evaluated a second time
                           LET l2 == Eval(n.Left, e, r.st)
                           IN IF l2.err # NoErr THEN R(l2.st, GoNil, l2.err)
                              ELSE Eval(n.Right, e, l2.st)
                      [] OTHER -> R(r.st, GoNil, Panic("Fatal error"))

\* the loops of the Class case that build the method maps
RECURSIVE MakeMethods(_, _, _, _, _)
MakeMethods(s, methods, e, map, markInit) ==
    IF methods = <<>> THEN [st |-> s, map |-> map]
    ELSE LET method == Head(methods)
             f == NewUserFunction(s, method, e, method.EnvSize)
             s1 == IF markInit /\ method.Name = "init"
                   THEN [f.st EXCEPT !.fns[f.fn].IsInitializer = TRUE]
                   ELSE f.st
         IN MakeMethods(s1, Tail(methods), e, MapPut(map, method.Name, f.fn), markInit)

EvalClass(n, environment, s) ==
    LET sc == IF n.SuperClass # NNil THEN Eval(n.SuperClass, environment, s)
              ELSE R(s, GoNil, NoErr)
    IN IF sc.err # NoErr THEN R(sc.st, GoNil, sc.err)
       ELSE IF n.SuperClass # NNil /\ sc.v.t # "Class"
       THEN R(sc.st, GoNil, Make("Superclass must be a class."))
       ELSE LET superclass == IF n.SuperClass # NNil THEN sc.v.id ELSE 0
                d == Define(sc.st, environment, n.Name, GoNil, n.EnvIndex)
            IN IF d.err # NoErr THEN R(d.st, GoNil, d.err)
               ELSE LET se == IF superclass # 0 THEN NewSized(d.st, environment, 1)
                              ELSE [st |-> d.st, env |-> environment]
                        sd == IF superclass # 0
                              THEN Define(se.st, se.env, "super", ClassV(superclass), 0)
                              ELSE [st |-> se.st, err |-> NoErr]
                        ms == MakeMethods(sd.st, n.Methods, se.env, EmptyMap, TRUE)
                        cs == MakeMethods(ms.st, n.ClassMethods, se.env, EmptyMap, FALSE)
                        klass == Len(cs.st.classes) + 1
                        s1 == [cs.st EXCEPT !.classes =
                                 Append(@, [SuperClass |-> superclass, MetaClass |-> cs.map,
                                            Name |-> n.Name, Methods |-> ms.map,
                                            Fields |-> EmptyMap])]
                        \* the error Assign returns is not looked at
                        a == Assign(s1, environment, n.Name, n.EnvIndex, ClassV(klass))
                    IN IF a.err.k = "panic" THEN R(a.st, GoNil, a.err)
                       ELSE R(a.st, GoNil, NoErr)

EvalSuper(n, environment, s) ==
    LET sc == GetAt(s, environment, n.EnvDepth, "super", 0)
    IN IF sc.err # NoErr THEN R(s, GoNil, sc.err)
       ELSE IF sc.v.t # "Class"
       THEN R(s, GoNil, Panic("Fatal error: 'super' not a class instance ?"))
       ELSE LET tc == GetAt(s, environment, n.EnvDepth - 1, "this", 0)
            IN IF tc.err # NoErr THEN R(s, GoNil, tc.err)
               ELSE IF tc.v.t # "ClassInstance"
               THEN R(s, GoNil, Panic("Fatal error: 'this' not a class instance ?"))
               ELSE LET m == FindMethod(s, sc.v.id, n.Method)
                    IN IF m.err # NoErr THEN R(s, GoNil, m.err)
                       ELSE LET b == Bind(s, m.fn, tc.v.id)
                            IN R(b.st, FnV(b.fn), NoErr)

EvalCall(n, environment, s) ==
    LET callee == Eval(n.Callee, environment, s)
    IN IF callee.err # NoErr THEN R(callee.st, GoNil, callee.err)
       ELSE LET a == EvalArguments(n.Arguments, environment, callee.st, <<>>)
            IN IF a.err # NoErr THEN R(a.st, GoNil, a.err)
               ELSE IF ~IsCallable(callee.v)
               THEN R(a.st, GoNil, Make("Can only call functions and classes."))
               ELSE IF Arity(a.st, callee.v) # Len(a.args)
               THEN R(a.st, GoNil,
                      Make("Expected " \o ToString(Arity(a.st, callee.v))
                           \o " arguments but got " \o ToString(Len(a.args)) \o "."))
               ELSE Call(a.st, callee.v, a.args)

WhileLoop(n, environment, s, iter) ==
    IF iter > MaxIter THEN R(s, GoNil, Panic("MaxIter"))
    ELSE LET condition == Eval(n.Condition, environment, s)
         IN IF condition.err # NoErr THEN R(condition.st, GoNil, condition.err)
            ELSE IF ~isTruthy(condition.v) THEN R(condition.st, GoNil, NoErr)
            ELSE LET b == Eval(n.Statement, environment, condition.st)
                 IN IF b.err = NoErr \/ b.err.k = "continueError"
                    THEN WhileLoop(n, environment, b.st, iter + 1)
                    ELSE IF b.err.k = "breakError" THEN R(b.st, GoNil, NoErr)
                    ELSE R(b.st, GoNil, b.err)

\* a for loop that runs the increment before it leaves on break
ForLoopIncrementOnBreak(n, environment, s, iter) ==
    IF iter > MaxIter THEN R(s, GoNil, Panic("MaxIter"))
    ELSE LET condition == IF n.Condition # NNil THEN Eval(n.Condition, environment, s)
                          ELSE R(s, Bool(TRUE), NoErr)
         IN IF condition.err # NoErr THEN R(condition.st, GoNil, condition.err)
            ELSE IF ~isTruthy(condition.v) THEN R(condition.st, GoNil, NoErr)
            ELSE LET b == Eval(n.Statement, environment, condition.st)
                 IN IF b.err.k \in {"nil", "continueError", "breakError"}
                    THEN LET i == IF n.Increment # NNil
                                  THEN Eval(n.Increment, environment, b.st)
                                  ELSE R(b.st, GoNil, NoErr)
                         IN IF i.err # NoErr THEN R(i.st, GoNil, i.err)
                            ELSE IF b.err.k = "breakError" THEN R(i.st, GoNil, NoErr)
                            ELSE ForLoop(n, environment, i.st, iter + 1)
                    ELSE R(b.st, GoNil, b.err)

ForLoop(n, environment, s, iter) ==
    IF iter > MaxIter THEN R(s, GoNil, Panic("MaxIter"))
    ELSE LET condition == IF n.Condition # NNil THEN Eval(n.Condition, environment, s)
                          ELSE R(s, Bool(TRUE), NoErr)
         IN IF condition.err # NoErr THEN R(condition.st, GoNil, condition.err)
            ELSE IF ~isTruthy(condition.v) THEN R(condition.st, GoNil, NoErr)
            ELSE LET b == Eval(n.Statement, environment, condition.st)
                 IN IF b.err = NoErr \/ b.err.k = "continueError"
                    THEN LET i == IF n.Increment # NNil
                                  THEN Eval(n.Increment, environment, b.st)
                                  ELSE R(b.st, GoNil, NoErr)
                         IN IF i.err # NoErr THEN R(i.st, GoNil, i.err)
                            ELSE ForLoop(n, environment, i.st, iter + 1)
                    ELSE IF b.err.k = "breakError" THEN R(b.st, GoNil, NoErr)
                    ELSE R(b.st, GoNil, b.err)

Eval(n, environment, s) ==
    CASE n.k = "Literal" -> R(s, n.Value, NoErr)
      [] n.k = "Grouping" -> Eval(n.Expression, environment, s)
      [] n.k = "Unary" ->
            LET right == Eval(n.Right, environment, s)
            IN IF right.err # NoErr THEN right
               ELSE IF n.Operator = "-"
               THEN LET c == checkNumberOperand(right.v, operandMustBeANumber)
                    IN IF c # NoErr THEN R(right.st, GoNil, c)
                       ELSE IF right.v.t # "float64"
                       THEN R(right.st, GoNil,
                              Panic("interface conversion: interface {} is int, not float64"))
                       ELSE R(right.st, Num(0 - right.v.n), NoErr)
               ELSE IF n.Operator = "!" THEN R(right.st, Bool(~isTruthy(right.v)), NoErr)
               ELSE R(right.st, GoNil, Panic("Fatal error"))
      [] n.k = "Binary" -> EvalBinary(n, environment, s)
      [] n.k = "Ternary" ->
            LET cond == Eval(n.Condition, environment, s)
            IN IF cond.err # NoErr THEN cond
               ELSE IF isTruthy(cond.v) THEN Eval(n.Then, environment, cond.st)
               ELSE Eval(n.Else, environment, cond.st)
      [] n.k = "Print" ->
            LET value == Eval(n.Expression, environment, s)
            IN IF value.err # NoErr THEN value
               ELSE R([value.st EXCEPT !.out = Append(@, Stringify(value.st, value.v))],
                      GoNil, NoErr)
      [] n.k = "Expression" ->
            LET r == Eval(n.Expression, environment, s)
            IN IF r.err # NoErr THEN r ELSE R(r.st, GoNil, NoErr)
      [] n.k = "Var" ->
            IF n.Initializer # NNil
            THEN LET value == Eval(n.Initializer, environment, s)
                 IN IF value.err # NoErr THEN R(value.st, GoNil, value.err)
                    ELSE LET d == Define(value.st, environment, n.Name, value.v, n.EnvIndex)
                         IN R(d.st, GoNil, d.err)
            ELSE LET d == DefineUnitialized(s, environment, n.Name, n.EnvIndex)
                 IN R(d.st, GoNil, d.err)
      [] n.k = "Variable" ->
            LET g == IF n.EnvDepth >= 0
                     THEN GetAt(s, environment, n.EnvDepth, n.Name, n.EnvIndex)
                     ELSE Get(s, s.GlobalEnv, n.Name, n.EnvIndex)
            IN R(s, g.v, g.err)
      [] n.k = "Assign" ->
            LET value == Eval(n.Value, environment, s)
            IN IF value.err # NoErr THEN R(value.st, GoNil, value.err)
               ELSE LET a == IF n.EnvDepth >= 0
                             THEN AssignAt(value.st, environment, n.EnvDepth, n.EnvIndex,
                                           n.Name, value.v)
                             ELSE Assign(value.st, value.st.GlobalEnv, n.Name, n.EnvIndex,
                                         value.v)
                    IN IF a.err # NoErr THEN R(a.st, GoNil, a.err)
                       ELSE R(a.st, value.v, NoErr)
      [] n.k = "Block" ->
            LET newEnvironment == NewSized(s, environment, n.EnvSize)
            IN EvalStatements(n.Statements, newEnvironment.env, newEnvironment.st)
      [] n.k = "If" ->
            LET condValue == Eval(n.Condition, environment, s)
            IN IF condValue.err # NoErr THEN R(condValue.st, GoNil, condValue.err)
               ELSE IF isTruthy(condValue.v) THEN Eval(n.ThenBranch, environment, condValue.st)
               ELSE IF n.ElseBranch # NNil THEN Eval(n.ElseBranch, environment, condValue.st)
               ELSE R(condValue.st, GoNil, NoErr)
      [] n.k = "For" ->
            LET i == IF n.Initializer # NNil THEN Eval(n.Initializer, environment, s)
                     ELSE R(s, GoNil, NoErr)
            IN IF i.err # NoErr THEN R(i.st, GoNil, i.err)
               ELSE ForLoop(n, environment, i.st, 1)
      [] n.k = "While" -> WhileLoop(n, environment, s, 1)
      [] n.k = "Logical" ->
            LET left == Eval(n.Left, environment, s)
            IN IF left.err # NoErr THEN R(left.st, GoNil, left.err)
               ELSE IF returnsLeft(n.Operator, left.v) THEN left
               ELSE Eval(n.Right, environment, left.st)
      [] n.k = "Call" -> EvalCall(n, environment, s)
      [] n.k = "Function" ->
            LET function == NewUserFunction(s, n, environment, n.EnvSize)
                d == Define(function.st, environment, n.Name, FnV(function.fn), n.EnvIndex)
            IN R(d.st, GoNil, d.err)
      [] n.k = "Return" ->
            IF n.Value # NNil
            THEN LET value == Eval(n.Value, environment, s)
                 IN IF value.err # NoErr THEN R(value.st, GoNil, value.err)
                    ELSE R(value.st, GoNil, returnError(value.v))
            ELSE R(s, GoNil, returnError(GoNil))
      [] n.k = "Break" -> R(s, GoNil, breakError)
      [] n.k = "Continue" -> R(s, GoNil, continueError)
      [] n.k = "Class" -> EvalClass(n, environment, s)
      [] n.k = "Get" ->
            LET value == Eval(n.Expression, environment, s)
            IN IF value.err # NoErr THEN R(value.st, GoNil, value.err)
               ELSE IF value.v.t = "ClassInstance"
               THEN ClassInstanceGet(value.st, value.v.id, n.Name)
               ELSE IF value.v.t = "Class" THEN ClassGet(value.st, value.v.id, n.Name)
               ELSE R(value.st, GoNil, Make("Only instances have properties."))
      [] n.k = "Set" ->
            LET obj == Eval(n.Object, environment, s)
            IN IF obj.err # NoErr THEN R(obj.st, GoNil, obj.err)
               ELSE IF obj.v.t \in {"ClassInstance", "Class"}
               THEN LET value == Eval(n.Value, environment, obj.st)
                    IN IF value.err # NoErr THEN R(value.st, GoNil, value.err)
                       ELSE IF obj.v.t = "ClassInstance"
                       THEN ClassInstanceSet(value.st, obj.v.id, n.Name, value.v)
                       ELSE ClassSet(value.st, obj.v.id, n.Name, value.v)
               ELSE R(obj.st, GoNil, Make("Only instances have properties."))
      [] n.k = "This" ->
            LET g == IF n.EnvDepth >= 0
                     THEN GetAt(s, environment, n.EnvDepth, n.Keyword, n.EnvIndex)
                     ELSE Get(s, s.GlobalEnv, n.Keyword, n.EnvIndex)
            IN R(s, g.v, g.err)
      [] n.k = "Super" -> EvalSuper(n, environment, s)
      [] n.k = "nil" -> R(s, GoNil, Make("Fatal interpreter error."))

(***************************************************************************)
(* package parser, for texts over the tokens                               *)
(*   while for fun class print break continue true false ( ) { } ; IDENT   *)
(* The Parser p holds the tokens, the index current of the next token      *)
(* (from 0), the inloop flag and, in logged, what parseerror.LogError was  *)
(* given.  The branches of the code for tokens outside this set (var, if,  *)
(* return, the operators, numbers, strings, ...) are never taken; with no  *)
(* operator token every level of expression from comma down to power       *)
(* yields what call yields.                                                *)
(***************************************************************************)
Tk(lexeme) == [Type |-> lexeme, Lexeme |-> lexeme]
Ident(name) == [Type |-> "IDENT", Lexeme |-> name]
EOFToken == [Type |-> "eof", Lexeme |-> ""]

NewParser(tokens) == [tokens |-> tokens, current |-> 0, inloop |-> FALSE, logged |-> <<>>]

peek(p) == p.tokens[p.current + 1]
previous(p) == p.tokens[p.current]
isAtEnd(p) == peek(p).Type = "eof"
check(p, tp) == ~isAtEnd(p) /\ peek(p).Type = tp
advance(p) == IF ~isAtEnd(p) THEN [p EXCEPT !.current = @ + 1] ELSE p

MakeError(tok, message) ==
    IF tok.Type = "eof" THEN "[line " \o ToString(Line) \o "] Error at end: " \o message
    ELSE "[line " \o ToString(Line) \o "] Error at '" \o tok.Lexeme \o "': " \o message

consume(p, tp, message) ==
    IF check(p, tp) THEN [p |-> advance(p), err |-> ""]
    ELSE [p |-> p, err |-> MakeError(peek(p), message)]

LogError(p, err) == [p EXCEPT !.logged = Append(@, err)]

\* a parser whose loops and functions leave the flag as their body left it
resetLoopNever(p, val) == p

resetLoop(p, val) == [p EXCEPT !.inloop = val]

RECURSIVE synchronizeLoop(_)
synchronizeLoop(p) ==
    IF isAtEnd(p) THEN p
    ELSE IF previous(p).Type = ";" THEN p
    ELSE IF peek(p).Type \in {"class", "fun", "var", "for", "if", "while", "print", "return"}
    THEN p
    ELSE synchronizeLoop(advance(p))

synchronize(p) == synchronizeLoop(advance(p))

\* what a parsing function returns: the parser afterwards, the node, the error
PR(p, n, err) == [p |-> p, n |-> n, err |-> err]

RECURSIVE declaration(_)
RECURSIVE statement(_)
RECURSIVE blockLoop(_, _)
RECURSIVE expression(_)
RECURSIVE callLoop(_, _)
RECURSIVE classLoop(_, _, _)

primary(p) ==
    IF check(p, "false") THEN PR(advance(p), NLiteral(Bool(FALSE)), "")
    ELSE IF check(p, "true") THEN PR(advance(p), NLiteral(Bool(TRUE)), "")
    ELSE IF check(p, "(")
    THEN Only({IF e.err # "" THEN PR(e.p, NNil, e.err)
               ELSE Only({IF c.err # "" THEN PR(c.p, NNil, c.err)
                          ELSE PR(c.p, NGrouping(e.n), "")
                          : c \in {consume(e.p, ")", "Expected ')' after expression.")}})
               : e \in {expression(advance(p))}})
    ELSE IF check(p, "IDENT") THEN PR(advance(p), NVariable(peek(p).Lexeme), "")
    ELSE PR(p, NNil, MakeError(peek(p), "Expected expression"))

\* after the "(" of a call; without a comma token there is at most one argument
finishCall(p, callee) ==
    Only({IF a.err # "" THEN PR(a.p, NNil, a.err)
          ELSE Only({IF c.err # "" THEN PR(c.p, NNil, c.err)
                     ELSE PR(c.p, NCall(callee, a.n), "")
                     : c \in {consume(a.p, ")", "Expected ')' after arguments.")}})
          : a \in {IF ~check(p, ")")
                   THEN Only({PR(x.p, <<x.n>>, x.err) : x \in {expression(p)}})
                   ELSE PR(p, <<>>, "")}})

\* the loop of call
callLoop(p, expr) ==
    IF check(p, "(")
    THEN Only({IF f.err # "" THEN PR(f.p, NNil, f.err) ELSE callLoop(f.p, f.n)
               : f \in {finishCall(advance(p), expr)}})
    ELSE PR(p, expr, "")

call(p) ==
    Only({IF x.err # "" THEN PR(x.p, NNil, x.err) ELSE callLoop(x.p, x.n)
          : x \in {primary(p)}})

expression(p) == call(p)

\* printStatement and expressionStatement: an expression and ";"
valueStatement(p, kind) ==
    Only({IF e.err # "" THEN PR(e.p, NNil, e.err)
          ELSE Only({IF c.err # "" THEN PR(c.p, NNil, c.err)
                     ELSE PR(c.p, IF kind = "print" THEN NPrint(e.n) ELSE NExpression(e.n), "")
                     : c \in {consume(e.p, ";", "Expected ';' after value.")}})
          : e \in {expression(p)}})

printStatement(p) == valueStatement(p, "print")
expressionStatement(p) == valueStatement(p, "expression")

\* breakStatement and continueStatement, after the keyword was matched
jumpStatement(p, keyword, node) ==
    IF ~p.inloop
    THEN PR(p, NNil, MakeError(previous(p), "Stray " \o keyword \o " detected."))
    ELSE Only({IF c.err # "" THEN PR(c.p, NNil, c.err) ELSE PR(c.p, node, "")
               : c \in {consume(p, ";", "Expected ';' after " \o keyword)}})

breakStatement(p) == jumpStatement(p, "break", NBreak)
continueStatement(p) == jumpStatement(p, "continue", NContinue)

\* after "while" was matched; the deferred resetLoop(oldInLoop) runs last
whileStatement(p) ==
    Only({PR(resetLoop(w.p, p.inloop), w.n, w.err) : w \in {
        Only({IF a.err # "" THEN PR(a.p, NNil, a.err)
              ELSE Only({IF c.err # "" THEN PR(c.p, NNil, c.err)
                 ELSE Only({IF b.err # "" THEN PR(b.p, NNil, b.err)
                    ELSE Only({IF s.err # "" THEN PR(s.p, NNil, s.err)
                               ELSE PR(s.p, NWhile(c.n, s.n), "")
                               : s \in {statement(b.p)}})
                    : b \in {consume(c.p, ")", "Expected ')' after condition.")}})
                 : c \in {expression(a.p)}})
              : a \in {consume([p EXCEPT !.inloop = TRUE], "(", "Expected '(' after 'while'.")}})}})

\* after "for" was matched: i, c, n are the three clauses, s is the body
forStatement(p) ==
    Only({PR(resetLoop(w.p, p.inloop), w.n, w.err) : w \in {
        Only({IF a.err # "" THEN PR(a.p, NNil, a.err)
          ELSE Only({IF i.err # "" THEN PR(i.p, NNil, i.err)
            ELSE Only({IF c.err # "" THEN PR(c.p, NNil, c.err)
              ELSE Only({IF d.err # "" THEN PR(d.p, NNil, d.err)
                ELSE Only({IF n.err # "" THEN PR(n.p, NNil, n.err)
                  ELSE Only({IF e.err # "" THEN PR(e.p, NNil, e.err)
                    ELSE Only({IF s.err # "" THEN PR(s.p, NNil, s.err)
                               ELSE PR(s.p, NFor(i.n, c.n, n.n, s.n), "")
                               : s \in {statement(e.p)}})
                    : e \in {consume(n.p, ")", "Expected ')' after for clauses.")}})
                  : n \in {IF ~check(d.p, ")") THEN expression(d.p) ELSE PR(d.p, NNil, "")}})
                : d \in {consume(c.p, ";", "Expect ';' after loop condition.")}})
              : c \in {IF ~check(i.p, ";") THEN expression(i.p) ELSE PR(i.p, NNil, "")}})
            : i \in {IF check(a.p, ";") THEN PR(advance(a.p), NNil, "")
                     ELSE expressionStatement(a.p)}})
          : a \in {consume([p EXCEPT !.inloop = TRUE], "(", "Expected '(' after 'for'.")}})}})

\* the declarations of a block up to "}"; a declaration that failed ends the
\* block at once ("return nil, nil") and the "}" is left where it is
blockLoop(p, stmts) ==
    IF ~check(p, "}") /\ ~isAtEnd(p)
    THEN Only({IF d.n = NNil THEN PR(d.p, <<>>, "")
               ELSE blockLoop(d.p, Append(stmts, d.n))
               : d \in {declaration(p)}})
    ELSE PR(consume(p, "}", "Expected '}' after block.").p, stmts, "")

block(p) == blockLoop(p, <<>>)

\* after "(": without a comma token there is at most one parameter
methodArguments(p, kind) ==
    Only({IF a.err # "" THEN PR(a.p, <<>>, a.err)
          ELSE Only({IF x.err # "" THEN PR(x.p, <<>>, x.err)
                     ELSE Only({PR(c.p, x.n, c.err)
                                : c \in {consume(x.p, ")", "Expected ')' after parameters.")}})
                     : x \in {IF ~check(a.p, ")")
                              THEN Only({PR(y.p, <<peek(a.p).Lexeme>>, y.err)
                                         : y \in {consume(a.p, "IDENT", "Expected parameter name.")}})
                              ELSE PR(a.p, <<>>, "")}})
          : a \in {consume(p, "(", "Expected '(' after " \o kind \o " name.")}})

\* after "fun", or at a method of a class body; the declaration is known by
\* the place of its name token; the deferred resetLoop(oldInLoop) runs last
funDeclaration(p, kind) ==
    Only({PR(resetLoop(w.p, p.inloop), w.n, w.err) : w \in {
      Only({
        Only({IF name.err # "" THEN PR(name.p, NNil, name.err)
          ELSE Only({IF a.err # "" THEN PR(a.p, NNil, a.err)
            ELSE Only({IF c.err # "" THEN PR(c.p, NNil, c.err)
              ELSE Only({PR(body.p,
                            [NFunction(q.current + 1, peek(q).Lexeme, a.n, body.n)
                               EXCEPT !.ParamsNil = ~check(name.p, "("),
                                      !.IsClassMethod = (q.current # p.current)],
                            "")
                         : body \in {block(c.p)}})
              : c \in {consume(a.p, "{", "Expected '{' before " \o kind \o " body.")}})
            : a \in {IF check(name.p, "(") THEN methodArguments(name.p, kind)
                     ELSE PR(name.p, <<>>, "")}})
          : name \in {consume(q, "IDENT", "Expected " \o kind \o " name.")}})
        : q \in {IF check(p, "class") THEN advance([p EXCEPT !.inloop = FALSE])
                 ELSE [p EXCEPT !.inloop = FALSE]}}) }})

\* the loop over the methods of a class body
classLoop(p, methods, classmethods) ==
    IF ~check(p, "}") /\ ~isAtEnd(p)
    THEN Only({IF f.err # "" THEN [p |-> f.p, methods |-> methods,
                                   classmethods |-> classmethods, err |-> f.err]
               ELSE IF ~f.n.IsClassMethod THEN classLoop(f.p, Append(methods, f.n), classmethods)
               ELSE classLoop(f.p, methods, Append(classmethods, f.n))
               : f \in {funDeclaration(p, "method")}})
    ELSE [p |-> p, methods |-> methods, classmethods |-> classmethods, err |-> ""]

\* after "class" was matched (the texts have no "<")
classDeclaration(p) ==
    Only({IF name.err # "" THEN PR(name.p, NNil, name.err)
      ELSE Only({IF a.err # "" THEN PR(a.p, NNil, a.err)
        ELSE Only({IF m.err # "" THEN PR(m.p, NNil, m.err)
          ELSE Only({IF c.err # "" THEN PR(c.p, NNil, c.err)
                     ELSE PR(c.p, NClass(p.current + 1, peek(p).Lexeme, NNil,
                                         m.methods, m.classmethods), "")
                     : c \in {consume(m.p, "}", "Expected '}' after class body.")}})
          : m \in {classLoop(a.p, <<>>, <<>>)}})
        : a \in {consume(name.p, "{", "Expected '{' before class body.")}})
      : name \in {consume(p, "IDENT", "Expected class name.")}})

statement(p) ==
    IF check(p, "while") THEN whileStatement(advance(p))
    ELSE IF check(p, "for") THEN forStatement(advance(p))
    ELSE IF check(p, "print") THEN printStatement(advance(p))
    ELSE IF check(p, "break") THEN breakStatement(advance(p))
    ELSE IF check(p, "continue") THEN continueStatement(advance(p))
    ELSE IF check(p, "{")
    THEN Only({PR(b.p, NBlock(b.n), "") : b \in {block(advance(p))}})
    ELSE expressionStatement(p)

\* the deferred checkError: synchronize, log the error, yield nil
declaration(p) ==
    Only({IF r.err # "" THEN PR(LogError(synchronize(r.p), r.err), NNil, "") ELSE r
          : r \in {IF check(p, "class") THEN classDeclaration(advance(p))
                   ELSE IF check(p, "fun") THEN funDeclaration(advance(p), "function")
                   ELSE statement(p)}})

\* the loop of Parse
RECURSIVE parseLoop(_, _)
parseLoop(p, stmts) ==
    IF isAtEnd(p) THEN [p |-> p, statements |-> stmts]
    ELSE Only({parseLoop(d.p, Append(stmts, d.n)) : d \in {declaration(p)}})

\* parser.New(tokens) and Parse
ParseTokens(tokens) == parseLoop(NewParser(tokens), <<>>)

(***************************************************************************)
(* Inputs.  Each is the result of scanning and parsing one source text,    *)
(* written in the comment beside it.                                       *)
(***************************************************************************)
Input(family, p, stmts) ==
    [family |-> family, p |-> p, scanErrors |-> 0, parseErrors |-> 0, stmts |-> stmts,
     now |-> 0]

PrintName(name) == NPrint(NVariable(name))
CallName(name, args) == NExpression(NCall(NVariable(name), args))
LitS(s) == NLiteral(Str(s))
LitN(n) == NLiteral(Num(n))
LitNil == NLiteral(GoNil)
\* C().m();
CallName2(class, method) ==
    NExpression(NCall(NGet(NCall(NVariable(class), <<>>), method), <<>>))

\* fun f() { print a; }
FunPrintA(id) == NFunction(id, "f", <<>>, <<PrintName("a")>>)

\* Lexical scoping.  expect is what the prints must write when every read in
\* a function body sees the binding in scope at the function's declaration.
LexicalInput(v) ==
    CASE v = 1 ->
         \* var a = "global"; { fun f() { print a; } f(); var a = "block"; f(); }
         [Input("lexical", [v |-> v], <<
            NVar(1, "a", LitS("global")),
            NBlock(<<FunPrintA(2), CallName("f", <<>>), NVar(3, "a", LitS("block")),
                     CallName("f", <<>>)>>)>>)
          EXCEPT !.p = [v |-> v, expect |-> <<"global", "global">>]]
      [] v = 2 ->
         \* var a = "global"; { fun f() { print a; } f(); var a = "block"; f(); print a; }
         [Input("lexical", [v |-> v], <<
            NVar(1, "a", LitS("global")),
            NBlock(<<FunPrintA(2), CallName("f", <<>>), NVar(3, "a", LitS("block")),
                     CallName("f", <<>>), PrintName("a")>>)>>)
          EXCEPT !.p = [v |-> v, expect |-> <<"global", "global", "block">>]]
      [] v = 3 ->
         \* var a = "global";
         \* { fun f() { print a; } fun g() { var a = "block"; f(); print a; } g(); f(); }
         [Input("lexical", [v |-> v], <<
            NVar(1, "a", LitS("global")),
            NBlock(<<FunPrintA(2),
                     NFunction(3, "g", <<>>, <<NVar(4, "a", LitS("block")),
                                               CallName("f", <<>>), PrintName("a")>>),
                     CallName("g", <<>>), CallName("f", <<>>)>>)>>)
          EXCEPT !.p = [v |-> v, expect |-> <<"global", "block", "global">>]]
      [] v = 4 ->
         \* { var a = "outer"; fun f() { print a; } { var a = "inner"; f(); print a; } f(); }
         [Input("lexical", [v |-> v], <<
            NBlock(<<NVar(1, "a", LitS("outer")), FunPrintA(2),
                     NBlock(<<NVar(3, "a", LitS("inner")), CallName("f", <<>>),
                              PrintName("a")>>),
                     CallName("f", <<>>)>>)>>)
          EXCEPT !.p = [v |-> v, expect |-> <<"outer", "inner", "outer">>]]
      [] v = 5 ->
         \* var a = "global"; fun f(a) { print a; } fun g() { print a; } f("arg"); g();
         [Input("lexical", [v |-> v], <<
            NVar(1, "a", LitS("global")),
            NFunction(2, "f", <<"a">>, <<PrintName("a")>>),
            NFunction(3, "g", <<>>, <<PrintName("a")>>),
            CallName("f", <<LitS("arg")>>), CallName("g", <<>>)>>)
          EXCEPT !.p = [v |-> v, expect |-> <<"arg", "global">>]]
      [] v = 6 ->
         \* var a = "global"; { var b = "b"; fun f() { print a; } f(); print b;
         \*                     var a = "block"; a = "changed"; f(); }
         [Input("lexical", [v |-> v], <<
            NVar(1, "a", LitS("global")),
            NBlock(<<NVar(2, "b", LitS("b")), FunPrintA(3), CallName("f", <<>>),
                     PrintName("b"), NVar(4, "a", LitS("block")),
                     NExpression(NAssign("a", LitS("changed"))),
                     CallName("f", <<>>)>>)>>)
          EXCEPT !.p = [v |-> v, expect |-> <<"global", "b", "global">>]]
      [] v = 7 ->
         \* var i = "global"; { for (var i = "loop"; ; ) { fun f() { print i; } f(); break; } }
         [Input("lexical", [v |-> v], <<
            NVar(1, "i", LitS("global")),
            NBlock(<<NFor(NVar(2, "i", LitS("loop")), NNil, NNil,
                          NBlock(<<NFunction(3, "f", <<>>, <<PrintName("i")>>),
                                   CallName("f", <<>>), NBreak>>))>>)>>)
          EXCEPT !.p = [v |-> v, expect |-> <<"loop">>]]

LexicalInputs == {LexicalInput(v) : v \in 1..7}

\* Uninitialized variables.  scope says where "var x;" stands; with assigned
\* the text has "x = 1;" between the declaration and the read.
UninitBody(assigned) ==
    <<NVar(1, "x", NNil)>>
    \o (IF assigned THEN <<NExpression(NAssign("x", LitN(1)))>> ELSE <<>>)
    \o <<PrintName("x")>>

UninitInput(scope, assigned) ==
    Input("uninit", [scope |-> scope, assigned |-> assigned],
          CASE scope = "global" -> UninitBody(assigned)          \* var x; [x = 1;] print x;
            [] scope = "block" -> <<NBlock(UninitBody(assigned))>>   \* { var x; [x = 1;] print x; }
            [] scope = "function" ->                     \* fun f() { var x; [x = 1;] print x; } f();
                 <<NFunction(2, "f", <<>>, UninitBody(assigned)), CallName("f", <<>>)>>)

UninitScopes == {"global", "block", "function"}
UninitInputs == {UninitInput(scope, assigned) : scope \in UninitScopes, assigned \in BOOLEAN}

\* Redeclarations of the name a.
RedeclarePair(kind) ==
    CASE kind = "var" -> <<NVar(1, "a", LitN(1)), NVar(2, "a", LitN(2))>>  \* var a = 1; var a = 2;
      [] kind = "function" ->                                         \* fun a() {} fun a() {}
           <<NFunction(1, "a", <<>>, <<>>), NFunction(2, "a", <<>>, <<>>)>>
      [] kind = "class" ->                                            \* class a {} class a {}
           <<NClass(1, "a", NNil, <<>>, <<>>), NClass(2, "a", NNil, <<>>, <<>>)>>
      [] kind = "param" -> <<NFunction(1, "f", <<"a", "a">>, <<>>)>>     \* fun f(a, a) {}

\* local: the pair stands in a block (the parameters stand in their
\* function's scope anyway)
RedeclareInput(kind, local) ==
    Input("redeclare", [kind |-> kind, local |-> local \/ kind = "param"],
          IF local /\ kind # "param" THEN <<NBlock(RedeclarePair(kind))>>
          ELSE RedeclarePair(kind))

RedeclareKinds == {"var", "function", "class", "param"}
RedeclareInputs == {RedeclareInput(kind, local) : kind \in RedeclareKinds, local \in BOOLEAN}

\* Calls with n arguments of a callee that takes a parameters.
MaxArity == 2
Names(a) == [i \in 1..a |-> "p" \o ToString(i)]
Numbers(n) == [i \in 1..n |-> LitN(i)]
PrintBody == <<NPrint(LitS("body"))>>

ArityInput(callee, a, n) ==
    Input("arity", [callee |-> callee, arity |-> a, nargs |-> n],
          CASE callee = "native" -> <<CallName("clock", Numbers(n))>>        \* clock(1, .., n);
            [] callee = "function" ->        \* fun f(p1, .., pa) { print "body"; } f(1, .., n);
                 <<NFunction(1, "f", Names(a), PrintBody), CallName("f", Numbers(n))>>
            [] callee = "method" ->   \* class C { m(p1, .., pa) { print "body"; } } C().m(1, .., n);
                 <<NClass(1, "C", NNil, <<NFunction(2, "m", Names(a), PrintBody)>>, <<>>),
                   NExpression(NCall(NGet(NCall(NVariable("C"), <<>>), "m"), Numbers(n)))>>
            [] callee = "class" ->    \* class C { init(p1, .., pa) { print "body"; } } C(1, .., n);
                 <<NClass(1, "C", NNil, <<NFunction(2, "init", Names(a), PrintBody)>>, <<>>),
                   CallName("C", Numbers(n))>>
            [] callee = "classNoInit" ->     \* class C { m() { print "body"; } } C(1, .., n);
                 <<NClass(1, "C", NNil, <<NFunction(2, "m", <<>>, PrintBody)>>, <<>>),
                   CallName("C", Numbers(n))>>)

UserCallees == {"function", "method", "class"}
ArityInputs ==
    {ArityInput(callee, a, n) : callee \in UserCallees, a \in 0..MaxArity, n \in 0..MaxArity}
    \cup {ArityInput(callee, 0, n) : callee \in {"native", "classNoInit"}, n \in 0..MaxArity}

\* Initializers, for an init with a parameters; with inBlock the whole text
\* stands between { and }.
\* var seen = nil; class C { init(p1, .., pa) { seen = this; [return;] } }
\* var o = C(1, .., a); print o == seen; print o.init(1, .., a) == o; print seen == o;
InitProgram(bareReturn, a) == <<
    NVar(1, "seen", LitNil),
    NClass(2, "C", NNil,
           <<NFunction(3, "init", Names(a),
                       <<NExpression(NAssign("seen", NThis))>>
                       \o (IF bareReturn THEN <<NReturn(NNil)>> ELSE <<>>))>>, <<>>),
    NVar(4, "o", NCall(NVariable("C"), Numbers(a))),
    NPrint(NBinary(NVariable("o"), "==", NVariable("seen"))),
    NPrint(NBinary(NCall(NGet(NVariable("o"), "init"), Numbers(a)), "==", NVariable("o"))),
    NPrint(NBinary(NVariable("seen"), "==", NVariable("o")))>>

InitInput(bareReturn, a, inBlock) ==
    Input("init", [bareReturn |-> bareReturn, arity |-> a, inBlock |-> inBlock],
          IF inBlock THEN <<NBlock(InitProgram(bareReturn, a))>>
          ELSE InitProgram(bareReturn, a))

InitInputs == {InitInput(bareReturn, a, inBlock) :
                  bareReturn \in BOOLEAN, a \in 0..MaxArity, inBlock \in BOOLEAN}

\* Inheritance.  expect is what the prints write when methods are looked up
\* in the class and then up the superclass chain.
ClassA == NClass(1, "A", NNil, <<NFunction(2, "greet", <<>>, <<NPrint(LitS("A"))>>)>>, <<>>)
SubClassB(methods) == NClass(3, "B", NSuperClassName("A"), methods, <<>>)
GreetB == CallName2("B", "greet")

InheritProgram(v) ==
    CASE v = "super" ->
         \* class A { greet() { print "A"; } }
         \* class B < A { greet() { super.greet(); print "B"; } } B().greet();
         <<ClassA,
           SubClassB(<<NFunction(4, "greet", <<>>,
                                 <<NExpression(NCall(NSuper("greet"), <<>>)),
                                   NPrint(LitS("B"))>>)>>),
           GreetB>>
      [] v = "inherited" ->
         \* class A { greet() { print "A"; } } class B < A {} B().greet();
         <<ClassA, SubClassB(<<>>), GreetB>>
      [] v = "override" ->
         \* class A { greet() { print "A"; } }
         \* class B < A { greet() { print "B"; } } B().greet();
         <<ClassA, SubClassB(<<NFunction(4, "greet", <<>>, <<NPrint(LitS("B"))>>)>>), GreetB>>

InheritExpect(v) ==
    CASE v = "super" -> <<"A", "B">>
      [] v = "inherited" -> <<"A">>
      [] v = "override" -> <<"B">>

\* inBlock: the whole text stands between { and }
InheritInput(v, inBlock) ==
    Input("inherit", [variant |-> v, inBlock |-> inBlock, expect |-> InheritExpect(v)],
          IF inBlock THEN <<NBlock(InheritProgram(v))>> ELSE InheritProgram(v))

InheritVariants == {"super", "inherited", "override"}
InheritInputs == {InheritInput(v, inBlock) : v \in InheritVariants, inBlock \in BOOLEAN}

\* Unused declarations.  locals are the var, function and class declarations
\* of the text that stand in a local scope, referenced those of them that
\* the text reads or assigns.
UnusedInput(v, locals, referenced, stmts) ==
    Input("unused", [v |-> v, locals |-> locals, referenced |-> referenced], stmts)

VarA == NVar(1, "a", LitN(1))
VarB == NVar(2, "b", LitN(2))
FunF(body) == NFunction(3, "f", <<>>, body)
ClassC == NClass(4, "C", NNil, <<>>, <<>>)
PrintRan == NPrint(LitS("ran"))

UnusedInputs == {
    \* { var a = 1; print "ran"; }
    UnusedInput(1, {StmtOf(VarA)}, {}, <<NBlock(<<VarA, PrintRan>>)>>),
    \* { var a = 1; print a; }
    UnusedInput(2, {StmtOf(VarA)}, {StmtOf(VarA)}, <<NBlock(<<VarA, PrintName("a")>>)>>),
    \* { var a = 1; a = 2; print "ran"; }
    UnusedInput(3, {StmtOf(VarA)}, {StmtOf(VarA)},
                <<NBlock(<<VarA, NExpression(NAssign("a", LitN(2))), PrintRan>>)>>),
    \* { fun f() {} print "ran"; }
    UnusedInput(4, {StmtOf(FunF(<<>>))}, {}, <<NBlock(<<FunF(<<>>), PrintRan>>)>>),
    \* { class C {} print "ran"; }
    UnusedInput(5, {StmtOf(ClassC)}, {}, <<NBlock(<<ClassC, PrintRan>>)>>),
    \* { var a = 1; var b = 2; fun f() { print b; } print "ran"; }
    UnusedInput(6, {StmtOf(VarA), StmtOf(VarB), StmtOf(FunF(<<>>))}, {StmtOf(VarB)},
                <<NBlock(<<VarA, VarB, FunF(<<PrintName("b")>>), PrintRan>>)>>),
    \* fun g(p) { var a = 1; print "ran"; } g(1);
    UnusedInput(7, {StmtOf(VarA)}, {},
                <<NFunction(5, "g", <<"p">>, <<VarA, PrintRan>>), CallName("g", <<LitN(1)>>)>>),
    \* var a = 1; fun f() {} class C {} print "ran";
    UnusedInput(8, {}, {}, <<VarA, FunF(<<>>), ClassC, PrintRan>>),
    \* { var a = 1; { var a = 2; print a; } }
    UnusedInput(9, {StmtOf(VarA), StmtOf(NVar(2, "a", LitN(2)))}, {StmtOf(NVar(2, "a", LitN(2)))},
                <<NBlock(<<VarA, NBlock(<<NVar(2, "a", LitN(2)), PrintName("a")>>)>>)>>),
    \* { for (var a = 1; false; ) print "ran"; }
    UnusedInput(10, {StmtOf(VarA)}, {},
                <<NBlock(<<NFor(VarA, NLiteral(Bool(FALSE)), NNil, PrintRan)>>)>>),
    \* { fun f() {} class C {} f(); C(); print "ran"; }
    UnusedInput(11, {StmtOf(FunF(<<>>)), StmtOf(ClassC)}, {StmtOf(FunF(<<>>)), StmtOf(ClassC)},
                <<NBlock(<<FunF(<<>>), ClassC, CallName("f", <<>>), CallName("C", <<>>),
                           PrintRan>>)>>)}

\* Outcomes of a run.  kind is the first error the text has, if any; errors
\* are the numbers of errors the scanner and the parser log for it.
ExitInput(kind) ==
    [Input("exit", [kind |-> kind],
        CASE kind = "ok" -> <<NVar(1, "g", LitN(1)), PrintName("g")>>      \* var g = 1; print g;
          [] kind = "runtime" ->                           \* var g = 1; print g; print -"a";
               <<NVar(1, "g", LitN(1)), PrintName("g"), NPrint(NUnary("-", LitS("a")))>>
          [] kind = "semantic" -> <<NReturn(LitN(5))>>                       \* return 5;
          [] kind = "scan" -> <<NVar(1, "g", LitN(1)), PrintName("g")>>  \* var g = 1; print g; @
          [] kind = "parse" ->                               \* var g = 1; print g; print ;
               <<NVar(1, "g", LitN(1)), PrintName("g"), NNil>>
          [] kind = "parse+runtime" ->                       \* print -"a"; print ;
               <<NPrint(NUnary("-", LitS("a"))), NNil>>)
     EXCEPT !.scanErrors = IF kind = "scan" THEN 1 ELSE 0,
            !.parseErrors = IF kind \in {"parse", "parse+runtime"} THEN 1 ELSE 0]

ExitKinds == {"ok", "runtime", "semantic", "scan", "parse", "parse+runtime"}
ExitInputs == {ExitInput(kind) : kind \in ExitKinds}

\* Lines typed at the prompt that define globals and that use them.
ReplInput(kind) ==
    Input("repl", [kind |-> kind],
          CASE kind = "define" ->
               \* var v = 1; fun h() { return 2; } class K {} print "defined";
               <<NVar(1, "v", LitN(1)), NFunction(2, "h", <<>>, <<NReturn(LitN(2))>>),
                 NClass(3, "K", NNil, <<>>, <<>>), NPrint(LitS("defined"))>>
            [] kind = "use" ->                          \* print v; print h(); print K;
               <<PrintName("v"), NPrint(NCall(NVariable("h"), <<>>)), PrintName("K")>>)

\* Return statements.  expect is the error Resolve must return: a return
\* outside every function, or a value returned directly by an initializer.
ReturnTopLevel == "Cannot return from top-level code."
ReturnInitializer == "Cannot return a value from an initializer."
Return5 == NReturn(LitN(5))
ClassFoo(methods) == NClass(1, "Foo", NNil, methods, <<>>)

ReturnInput(v) ==
    CASE v = 1 -> Input("return", [v |-> v, expectErr |-> ReturnTopLevel],       \* return 5;
                        <<Return5>>)
      [] v = 2 -> Input("return", [v |-> v, expectErr |-> ReturnTopLevel],       \* return;
                        <<NReturn(NNil)>>)
      [] v = 3 -> Input("return", [v |-> v, expectErr |-> ReturnTopLevel],       \* { return 5; }
                        <<NBlock(<<Return5>>)>>)
      [] v = 4 -> Input("return", [v |-> v, expectErr |-> ReturnTopLevel],
                        \* fun f() { return 5; } return 5;
                        <<NFunction(2, "f", <<>>, <<Return5>>), Return5>>)
      [] v = 5 -> Input("return", [v |-> v, expectErr |-> ReturnInitializer],
                        \* class Foo { init() { return 5; } }
                        <<ClassFoo(<<NFunction(2, "init", <<>>, <<Return5>>)>>)>>)
      [] v = 6 -> Input("return", [v |-> v, expectErr |-> ReturnInitializer],
                        \* class Foo { init() { if (true) { return 5; } } }
                        <<ClassFoo(<<NFunction(2, "init", <<>>,
                              <<NIf(NLiteral(Bool(TRUE)), NBlock(<<Return5>>), NNil)>>)>>)>>)
      [] v = 7 -> Input("return", [v |-> v, expectErr |-> ReturnInitializer],
                        \* class Foo { m() { return 1; } init(a) { return a; } }
                        <<ClassFoo(<<NFunction(2, "m", <<>>, <<NReturn(LitN(1))>>),
                                     NFunction(3, "init", <<"a">>,
                                               <<NReturn(NVariable("a"))>>)>>)>>)
      [] v = 8 -> Input("return", [v |-> v, expectErr |-> ""],
                        \* class Foo { init() { return; } }
                        <<ClassFoo(<<NFunction(2, "init", <<>>, <<NReturn(NNil)>>)>>)>>)
      [] v = 9 -> Input("return", [v |-> v, expectErr |-> ""],         \* fun f() { return 5; }
                        <<NFunction(2, "f", <<>>, <<Return5>>)>>)
      [] v = 10 -> Input("return", [v |-> v, expectErr |-> ""],
                         \* class Foo { m() { return 5; } }
                         <<ClassFoo(<<NFunction(2, "m", <<>>, <<Return5>>)>>)>>)
      [] v = 11 -> Input("return", [v |-> v, expectErr |-> ""],
                         \* class Foo { init() { fun g() { return 5; } g(); } }
                         <<ClassFoo(<<NFunction(2, "init", <<>>,
                               <<NFunction(3, "g", <<>>, <<Return5>>),
                                 CallName("g", <<>>)>>)>>)>>)
      [] v = 12 -> Input("return", [v |-> v, expectErr |-> ""],
                         \* class Foo { init() { } m() { return 5; } } fun init() { return 5; }
                         <<ClassFoo(<<NFunction(2, "init", <<>>, <<>>),
                                      NFunction(3, "m", <<>>, <<Return5>>)>>),
                           NFunction(4, "init", <<>>, <<Return5>>)>>)

ReturnInputs == {ReturnInput(v) : v \in 1..12}

\* Uses of this.  expect is the error Resolve must return: this outside
\* every class body, or this in the body of a class (static) method.
ThisOutsideClass == "Cannot use 'this' outside of a class."
ThisInClassMethod == "Cannot use 'this' outside instance initializers or methods."
PrintThis == NPrint(NThis)

ThisInput(v) ==
    CASE v = 1 -> Input("this", [v |-> v, expectErr |-> ThisOutsideClass],           \* print this;
                        <<PrintThis>>)
      [] v = 2 -> Input("this", [v |-> v, expectErr |-> ThisOutsideClass],
                        \* fun foo() { print this; }
                        <<NFunction(1, "foo", <<>>, <<PrintThis>>)>>)
      [] v = 3 -> Input("this", [v |-> v, expectErr |-> ThisOutsideClass],
                        \* fun foo() { fun bar(n) { return n + this; } return bar(10); }
                        <<NFunction(1, "foo", <<>>,
                            <<NFunction(2, "bar", <<"n">>,
                                        <<NReturn(NBinary(NVariable("n"), "+", NThis))>>),
                              NReturn(NCall(NVariable("bar"), <<LitN(10)>>))>>)>>)
      [] v = 4 -> Input("this", [v |-> v, expectErr |-> ThisOutsideClass],
                        \* class Foo { m() { } } print this;
                        <<ClassFoo(<<NFunction(2, "m", <<>>, <<>>)>>), PrintThis>>)
      [] v = 5 -> Input("this", [v |-> v, expectErr |-> ThisOutsideClass],
                        \* class Foo { } fun f() { return this; }
                        <<ClassFoo(<<>>), NFunction(2, "f", <<>>, <<NReturn(NThis)>>)>>)
      [] v = 6 -> Input("this", [v |-> v, expectErr |-> ThisInClassMethod],
                        \* class Foo { class foo() { return this + 5; } }
                        <<NClass(1, "Foo", NNil, <<>>,
                                 <<NClassMethod("foo", <<>>,
                                      <<NReturn(NBinary(NThis, "+", LitN(5)))>>)>>)>>)
      [] v = 7 -> Input("this", [v |-> v, expectErr |-> ""],
                        \* class Foo { m() { print this; } }
                        <<ClassFoo(<<NFunction(2, "m", <<>>, <<PrintThis>>)>>)>>)
      [] v = 8 -> Input("this", [v |-> v, expectErr |-> ""],
                        \* class Foo { init() { this.x = 1; } }
                        <<ClassFoo(<<NFunction(2, "init", <<>>,
                                        <<NExpression(NSet(NThis, "x", LitN(1)))>>)>>)>>)
      [] v = 9 -> Input("this", [v |-> v, expectErr |-> ""],
                        \* class Foo { m() { fun g() { print this; } g(); } }
                        <<ClassFoo(<<NFunction(2, "m", <<>>,
                                        <<NFunction(3, "g", <<>>, <<PrintThis>>),
                                          CallName("g", <<>>)>>)>>)>>)

ThisInputs == {ThisInput(v) : v \in 1..9}

\* Uses of super.  expect is the error Resolve must return: super outside
\* every class body, or super in a class declared without a superclass.
SuperOutsideClass == "Cannot use 'super' outside of a class."
SuperNoSuperclass == "Cannot use 'super' in a class with no superclass."
\* super.name();
CallSuper(name) == NExpression(NCall(NSuper(name), <<>>))

SuperInput(v) ==
    CASE v = 1 -> Input("super", [v |-> v, expectErr |-> SuperOutsideClass],
                        \* super.notEvenInAClass();
                        <<CallSuper("notEvenInAClass")>>)
      [] v = 2 -> Input("super", [v |-> v, expectErr |-> SuperOutsideClass],
                        \* fun f() { super.m(); }
                        <<NFunction(1, "f", <<>>, <<CallSuper("m")>>)>>)
      [] v = 3 -> Input("super", [v |-> v, expectErr |-> SuperNoSuperclass],
                        \* class Foo { cook { super.cook(); } }
                        <<ClassFoo(<<NProperty("cook", <<CallSuper("cook")>>)>>)>>)
      [] v = 4 -> Input("super", [v |-> v, expectErr |-> SuperNoSuperclass],
                        \* class Foo { cook() { super.cook(); } }
                        <<ClassFoo(<<NFunction(2, "cook", <<>>, <<CallSuper("cook")>>)>>)>>)

SuperInputs == {SuperInput(v) : v \in 1..4}

\* the texts the resolver's own tests give to Resolve
ResolverInputs == ReturnInputs \cup ThisInputs \cup SuperInputs

\* Texts with one break or continue (kw): path lists, from the outside in,
\* what encloses it, and prefix is the statement that stands before it in
\* the innermost enclosing body.
\*   "while"   while (false) { .. }      "while1"  while (false) ..
\*   "for"     for (; false; ) { .. }    "block"   { .. }
\*   "fun"     fun f() { .. }            "method"  class C { m() { .. } }
\* prefix "loop" is  while (false) print true;  and "fun" is
\* fun g() { print true; }
MaxNest == 3
Wrappers == {"while", "while1", "for", "fun", "block", "method"}
LoopWrappers == {"while", "while1", "for"}
Prefixes == {"none", "loop", "fun"}

Toks(lexemes) == [i \in 1..Len(lexemes) |-> Tk(lexemes[i])]

Header(w) ==
    CASE w = "while" -> Toks(<<"while", "(", "false", ")", "{">>)
      [] w = "while1" -> Toks(<<"while", "(", "false", ")">>)
      [] w = "for" -> Toks(<<"for", "(", ";", "false", ";", ")", "{">>)
      [] w = "fun" -> <<Tk("fun"), Ident("f")>> \o Toks(<<"(", ")", "{">>)
      [] w = "block" -> Toks(<<"{">>)
      [] w = "method" ->
           <<Tk("class"), Ident("C"), Tk("{"), Ident("m")>> \o Toks(<<"(", ")", "{">>)

Footer(w) ==
    CASE w = "while1" -> <<>>
      [] w = "method" -> Toks(<<"}", "}">>)
      [] OTHER -> Toks(<<"}">>)

PrefixTokens(prefix) ==
    CASE prefix = "none" -> <<>>
      [] prefix = "loop" -> Toks(<<"while", "(", "false", ")", "print", "true", ";">>)
      [] prefix = "fun" ->
           <<Tk("fun"), Ident("g")>> \o Toks(<<"(", ")", "{", "print", "true", ";", "}">>)

RECURSIVE Nest(_, _, _)
Nest(path, i, inner) ==
    IF i > Len(path) THEN inner
    ELSE Header(path[i]) \o Nest(path, i + 1, inner) \o Footer(path[i])

\* the tokens the scanner returns for the text
JumpTokens(path, prefix, kw) ==
    Nest(path, 1, PrefixTokens(prefix) \o Toks(<<kw, ";">>)) \o <<EOFToken>>

\* the statements of the text, read off its structure; offset is the number
\* of tokens before the part in question
LitFalse == NLiteral(Bool(FALSE))
PrefixAst(prefix, offset) ==
    CASE prefix = "none" -> <<>>
      [] prefix = "loop" -> <<NWhile(LitFalse, NPrint(NLiteral(Bool(TRUE))))>>
      [] prefix = "fun" ->
           <<NFunction(offset + 2, "g", <<>>, <<NPrint(NLiteral(Bool(TRUE)))>>)>>

RECURSIVE NestAst(_, _, _, _, _)
NestAst(path, i, offset, prefix, kw) ==
    IF i > Len(path)
    THEN PrefixAst(prefix, offset) \o <<IF kw = "break" THEN NBreak ELSE NContinue>>
    ELSE LET body == NestAst(path, i + 1, offset + Len(Header(path[i])), prefix, kw)
             w == path[i]
         IN CASE w = "while" -> <<NWhile(LitFalse, NBlock(body))>>
              [] w = "while1" -> <<NWhile(LitFalse, body[1])>>
              [] w = "for" -> <<NFor(NNil, LitFalse, NNil, NBlock(body))>>
              [] w = "fun" -> <<NFunction(offset + 2, "f", <<>>, body)>>
              [] w = "block" -> <<NBlock(body)>>
              [] w = "method" ->
                   <<NClass(offset + 2, "C", NNil,
                            <<NFunction(offset + 4, "m", <<>>, body)>>, <<>>)>>

\* the break/continue is inside a loop body of the function it stands in:
\* of the loops, functions and methods around it the innermost is a loop
JumpLegal(path) ==
    LET marks == {i \in 1..Len(path) : path[i] \in LoopWrappers \cup {"fun", "method"}}
    IN marks # {} /\ path[MaxOf(marks)] \in LoopWrappers

\* the body of a loop without braces is a single statement
WellFormedJump(path, prefix) ==
    \A i \in 1..Len(path) :
        path[i] = "while1" =>
            IF i = Len(path) THEN prefix = "none"
            ELSE path[i + 1] \in LoopWrappers \cup {"block"}

JumpInput(path, prefix, kw) ==
    Only({[Input("jump", [path |-> path, prefix |-> prefix, kw |-> kw,
                          legal |-> JumpLegal(path),
                          tokens |-> JumpTokens(path, prefix, kw),
                          logged |-> r.p.logged, inloop |-> r.p.inloop],
                 r.statements)
           EXCEPT !.parseErrors = Len(r.p.logged)]
          : r \in {ParseTokens(JumpTokens(path, prefix, kw))}})

JumpPaths == UNION {[1..n -> Wrappers] : n \in 0..MaxNest}
JumpInputs ==
    {JumpInput(x.path, x.prefix, kw) :
        x \in {y \in [path : JumpPaths, prefix : Prefixes] : WellFormedJump(y.path, y.prefix)},
        kw \in {"break", "continue"}}

\* Loops with a break or continue.  inc prints "inc" and returns its argument
\* plus one; the inner loop counts j from 0 to LoopEnd, the outer loop, if
\* any, runs it twice:
\*   for (; j < 3; j = inc(j)) { print j; JUMP print "e"; }
\*   while (j < 3) { print j; j = inc(j); JUMP print "e"; }
\* JUMP is  if (j == at) kw;  or, when deep,
\* { var t = j; if (t == at) { kw; } }  (in the while loop j is then at + 1).
LoopEnd == 3
LessThan(name, n) == NBinary(NVariable(name), "<", LitN(n))
IncJ == NAssign("j", NCall(NVariable("inc"), <<NVariable("j")>>))
LoopJump(kw) == IF kw = "break" THEN NBreak ELSE NContinue
JumpIf(at, kw, deep) ==
    IF deep
    THEN <<NBlock(<<NVar(9, "t", NVariable("j")),
                    NIf(NBinary(NVariable("t"), "==", LitN(at)), NBlock(<<LoopJump(kw)>>), NNil)>>)>>
    ELSE <<NIf(NBinary(NVariable("j"), "==", LitN(at)), LoopJump(kw), NNil)>>
InnerLoop(inner, kw, at, deep) ==
    IF inner = "for"
    THEN NFor(NNil, LessThan("j", LoopEnd), IncJ,
              NBlock(<<PrintName("j")>> \o JumpIf(at, kw, deep) \o <<NPrint(LitS("e"))>>))
    ELSE NWhile(LessThan("j", LoopEnd),
                NBlock(<<PrintName("j"), NExpression(IncJ)>> \o JumpIf(at + 1, kw, deep)
                       \o <<NPrint(LitS("e"))>>))
OuterBody(inner, kw, at, deep) ==
    <<NExpression(NAssign("j", LitN(0))), InnerLoop(inner, kw, at, deep),
      PrintName("j"), NPrint(LitS("o"))>>
IncI == NAssign("i", NBinary(NVariable("i"), "+", LitN(1)))
OuterLoop(outer, body) ==
    CASE outer = "none" -> body
      [] outer = "for" -> <<NFor(NNil, LessThan("i", 2), IncI, NBlock(body))>>
      [] outer = "while" -> <<NWhile(LessThan("i", 2), NBlock(body \o <<NExpression(IncI)>>))>>

\* what the inner loop prints from counter j on, and j after the loop
RECURSIVE InnerTrace(_, _, _, _)
InnerTrace(inner, kw, at, j) ==
    IF j >= LoopEnd THEN <<ToString(j)>>
    ELSE IF inner = "for"
    THEN <<ToString(j)>> \o
         (IF j = at /\ kw = "break" THEN <<ToString(j)>>
          ELSE IF j = at /\ kw = "continue" THEN <<"inc">> \o InnerTrace(inner, kw, at, j + 1)
          ELSE <<"e", "inc">> \o InnerTrace(inner, kw, at, j + 1))
    ELSE <<ToString(j), "inc">> \o
         (IF j = at /\ kw = "break" THEN <<ToString(j + 1)>>
          ELSE IF j = at /\ kw = "continue" THEN InnerTrace(inner, kw, at, j + 1)
          ELSE <<"e">> \o InnerTrace(inner, kw, at, j + 1))
LoopExpect(outer, inner, kw, at) ==
    LET once == InnerTrace(inner, kw, at, 0) \o <<"o">>
    IN IF outer = "none" THEN once \o <<"0">> ELSE once \o once \o <<"2">>

LoopInput(outer, inner, kw, at, deep) ==
    Input("loop", [outer |-> outer, inner |-> inner, kw |-> kw, at |-> at, deep |-> deep,
                   expect |-> LoopExpect(outer, inner, kw, at)],
          <<NFunction(1, "inc", <<"x">>,
                      <<NPrint(LitS("inc")), NReturn(NBinary(NVariable("x"), "+", LitN(1)))>>),
            NVar(2, "i", LitN(0)), NVar(3, "j", LitN(0))>>
          \o OuterLoop(outer, OuterBody(inner, kw, at, deep)) \o <<PrintName("i")>>)

\* the texts of TestEvalBreakContinue
IfLess(name, n, then) == NIf(NBinary(NVariable(name), "<", LitN(n)), then, NNil)
IncA == NAssign("a", NBinary(NVariable("a"), "+", LitN(1)))
LoopTestInput(n) ==
    Input("loop", [outer |-> "test", inner |-> "", kw |-> "", at |-> n, deep |-> FALSE,
                   expect |-> IF n = 1 THEN <<"8">> ELSE <<"9">>],
          CASE n = 1 -> <<NVar(1, "a", LitN(0)),
                          NWhile(LessThan("a", 10),
                                 NBlock(<<NIf(NBinary(NVariable("a"), "==", LitN(8)), NBreak, NNil),
                                          NExpression(IncA)>>)),
                          PrintName("a")>>
            [] n = 2 -> <<NVar(1, "a", LitN(1)),
                          NWhile(LessThan("a", 10),
                                 NBlock(<<NExpression(IncA),
                                          IfLess("a", 9, NBlock(<<NContinue>>)),
                                          PrintName("a"), NBreak>>))>>
            [] n = 3 -> <<NFor(NVar(1, "a", LitN(1)), LessThan("a", 10), IncA,
                               NBlock(<<IfLess("a", 9, NBlock(<<NContinue>>)),
                                        PrintName("a"), NBreak>>))>>)

LoopInputs == {LoopInput(outer, inner, kw, at, deep) :
                  outer \in {"none", "for", "while"}, inner \in {"for", "while"},
                  kw \in {"break", "continue"}, at \in 0..LoopEnd, deep \in BOOLEAN}
              \cup {LoopTestInput(n) : n \in 1..3}

\* Operands of every kind of runtime value, written after the declarations
\*   fun f() {} fun g() {} class C { m() {} } class D {}
\*   var o = C(); var o2 = C(); var p = o;
\* type is the kind of value and ident tells which value it is: two operands
\* denote the same value exactly when their ident is the same, except o.m,
\* which is a new bound function each time it is evaluated.
Declarations ==
    <<NFunction(1, "f", <<>>, <<>>), NFunction(2, "g", <<>>, <<>>),
      NClass(3, "C", NNil, <<NFunction(4, "m", <<>>, <<>>)>>, <<>>),
      NClass(5, "D", NNil, <<>>, <<>>),
      NVar(6, "o", NCall(NVariable("C"), <<>>)), NVar(7, "o2", NCall(NVariable("C"), <<>>)),
      NVar(8, "p", NVariable("o"))>>
Operand(name, type, ident, expr) == [name |-> name, type |-> type, ident |-> ident, expr |-> expr]
Operands ==
    {Operand("nil", "nil", "nil", LitNil),
     Operand("true", "bool", "true", NLiteral(Bool(TRUE))),
     Operand("false", "bool", "false", NLiteral(Bool(FALSE))),
     Operand("0", "number", "0", LitN(0)),
     Operand("1", "number", "1", LitN(1)),
     Operand("empty", "string", "empty", LitS("")),
     Operand("s0", "string", "s0", LitS("0")),
     Operand("sfalse", "string", "sfalse", LitS("false")),
     Operand("f", "function", "f", NVariable("f")),
     Operand("g", "function", "g", NVariable("g")),
     Operand("o.m", "function", "o.m", NGet(NVariable("o"), "m")),
     Operand("clock", "native", "clock", NVariable("clock")),
     Operand("C", "class", "C", NVariable("C")),
     Operand("D", "class", "D", NVariable("D")),
     Operand("o", "instance", "o", NVariable("o")),
     Operand("o2", "instance", "o2", NVariable("o2")),
     Operand("p", "instance", "o", NVariable("p"))}
SameValue(a, b) == a.ident = b.ident /\ a.ident # "o.m"

\* print a == b; print a != b;
EqualInput(a, b) ==
    Input("equal", [a |-> a, b |-> b],
          Declarations \o <<NPrint(NBinary(a.expr, "==", b.expr)),
                            NPrint(NBinary(a.expr, "!=", b.expr))>>)
EqualInputs == {EqualInput(a, b) : a \in Operands, b \in Operands}

\* print !x; print !!x; print x ? "t" : "f"; if (x) print "then"; else print "else";
\* for x one of the operands, or the int that clock() returns
TruthOperands == Operands \cup {Operand("clock()", "int", "now", NCall(NVariable("clock"), <<>>))}
TruthInput(x) ==
    Input("truth", [x |-> x, falsy |-> x.name \in {"nil", "false"}],
          Declarations \o
          <<NPrint(NUnary("!", x.expr)), NPrint(NUnary("!", NUnary("!", x.expr))),
            NPrint(NTernary(x.expr, LitS("t"), LitS("f"))),
            NIf(x.expr, NPrint(LitS("then")), NPrint(LitS("else")))>>)
TruthInputs == {TruthInput(x) : x \in TruthOperands}

\* what print writes for an operand
Shown(x) ==
    CASE x.type = "nil" -> "<nil>"
      [] x.type \in {"bool", "number", "function"} -> x.name
      [] x.name = "empty" -> ""
      [] x.name = "s0" -> "0"
      [] x.name = "sfalse" -> "false"
      [] x.type = "class" -> "<class " \o x.name \o ">"
      [] x.type = "instance" -> "<class-instance C>"
BoolText(b) == IF b THEN "true" ELSE "false"

\* var side = "unset"; var r = a OP (side = b);
\* print r; print side; print r == a; print r == b;
LogicalOperands == {x \in Operands : x.name \notin {"o.m", "clock"}}
LogicalInput(op, a, b) ==
    Input("logical", [op |-> op, a |-> a, b |-> b,
                      left |-> IF op = "or" THEN a.name \notin {"nil", "false"}
                               ELSE a.name \in {"nil", "false"}],
          Declarations \o
          <<NVar(9, "side", LitS("unset")),
            NVar(10, "r", NLogical(a.expr, op, NGrouping(NAssign("side", b.expr)))),
            PrintName("r"), PrintName("side"),
            NPrint(NBinary(NVariable("r"), "==", a.expr)),
            NPrint(NBinary(NVariable("r"), "==", b.expr))>>)
LogicalInputs == {LogicalInput(op, a, b) :
                     op \in {"or", "and"}, a \in LogicalOperands, b \in LogicalOperands}

\* A class with a getter g and a method m of the same body:
\*   class C { g { print "run g"; RETURN } m() { print "run m"; RETURN } }
\*   var o = C(); o.n = 7; var o2 = C(); o2.n = 8;
\*   print X.g; var h = X.m; print "got"; print h; print h(); print X.g == X.n;
\* RETURN is  return this.n;  or  return this;  or nothing, X is o or o2, and
\* the whole text may stand in a block.
GetterBody(name, ret) ==
    <<NPrint(LitS("run " \o name))>> \o
    (CASE ret = "field" -> <<NReturn(NGet(NThis, "n"))>>
       [] ret = "this" -> <<NReturn(NThis)>>
       [] ret = "nil" -> <<>>)
GetterProgram(ret, x) ==
    <<NClass(1, "C", NNil,
             <<[NProperty("g", GetterBody("g", ret)) EXCEPT !.id = 2],
               NFunction(3, "m", <<>>, GetterBody("m", ret))>>, <<>>),
      NVar(4, "o", NCall(NVariable("C"), <<>>)),
      NExpression(NSet(NVariable("o"), "n", LitN(7))),
      NVar(5, "o2", NCall(NVariable("C"), <<>>)),
      NExpression(NSet(NVariable("o2"), "n", LitN(8))),
      NPrint(NGet(NVariable(x), "g")),
      NVar(6, "h", NGet(NVariable(x), "m")),
      NPrint(LitS("got")),
      PrintName("h"),
      NPrint(NCall(NVariable("h"), <<>>)),
      NPrint(NBinary(NGet(NVariable(x), "g"), "==", NGet(NVariable(x), "n")))>>
GetterValue(ret, x) ==
    CASE ret = "field" -> IF x = "o" THEN "7" ELSE "8"
      [] ret = "this" -> "<class-instance C>"
      [] ret = "nil" -> "<nil>"
GetterInput(ret, x, inBlock) ==
    Input("getter", [ret |-> ret, x |-> x, inBlock |-> inBlock],
          IF inBlock THEN <<NBlock(GetterProgram(ret, x))>> ELSE GetterProgram(ret, x))
GetterInputs == {GetterInput(ret, x, inBlock) :
                    ret \in {"field", "this", "nil"}, x \in {"o", "o2"}, inBlock \in BOOLEAN}
\* class C { g { } m ( ) { } }
GetterTokens ==
    <<Tk("class"), Ident("C"), Tk("{"), Ident("g"), Tk("{"), Tk("}"),
      Ident("m"), Tk("("), Tk(")"), Tk("{"), Tk("}"), Tk("}"), EOFToken>>


\* the declarations, then  print (o.fld = V); print o.fld;
\* print o.fld == V;  for V one of the operands (f stands for the field fld)
SetOperands == {x \in Operands : x.name \in {"nil", "true", "1", "s0", "f", "C", "o2"}}
SetInput(x) ==
    Input("set", [x |-> x],
          Declarations \o
          <<NPrint(NGrouping(NSet(NVariable("o"), "fld", x.expr))),
            NPrint(NGet(NVariable("o"), "fld")),
            NPrint(NBinary(NGet(NVariable("o"), "fld"), "==", x.expr))>>)
SetInputs == {SetInput(x) : x \in SetOperands}


\* Texts with a runtime error in the middle:
\*   var a = 1; fun f() {} print "before"; BODY print a; [ERR;] print "after"; print a;
\* BODY holds  a = 2; print "in"; ERR; print "skipped"; a = 3;  in a block,
\* in a function that is then called, in a loop, or, for "top", ends at ERR.
ErrStmt(kind) ==
    CASE kind = "minus" -> NExpression(NUnary("-", LitS("x")))
      [] kind = "undefined" -> PrintName("nope")
      [] kind = "call" -> NExpression(NCall(LitS("x"), <<>>))
      [] kind = "get" -> NExpression(NGet(LitN(1), "q"))
      [] kind = "arity" -> CallName("f", <<LitN(1)>>)
ErrMessage(kind) ==
    CASE kind = "minus" -> "Operand must be a number\n[line 1]"
      [] kind = "undefined" -> "Undefined variable 'nope'\n[line 1]"
      [] kind = "call" -> "Can only call functions and classes.\n[line 1]"
      [] kind = "get" -> "Only instances have properties.\n[line 1]"
      [] kind = "arity" -> "Expected 0 arguments but got 1.\n[line 1]"
ErrKinds == {"minus", "undefined", "call", "get", "arity"}
ErrBody(kind) ==
    <<NExpression(NAssign("a", LitN(2))), NPrint(LitS("in")), ErrStmt(kind),
      NPrint(LitS("skipped")), NExpression(NAssign("a", LitN(3)))>>
ErrPlaced(kind, place) ==
    CASE place = "top" -> SubSeq(ErrBody(kind), 1, 3)
      [] place = "block" -> <<NBlock(ErrBody(kind))>>
      [] place = "fun" -> <<NFunction(3, "g", <<>>, ErrBody(kind)), CallName("g", <<>>)>>
      [] place = "loop" -> <<NWhile(NLiteral(Bool(TRUE)), NBlock(ErrBody(kind)))>>
RuntimeErrorInput(kind, place, twice) ==
    Input("rterr", [kind |-> kind, place |-> place, twice |-> twice],
          <<NVar(1, "a", LitN(1)), NFunction(2, "f", <<>>, <<>>), NPrint(LitS("before"))>>
          \o ErrPlaced(kind, place) \o <<PrintName("a")>>
          \o (IF twice THEN <<ErrStmt(kind)>> ELSE <<>>)
          \o <<NPrint(LitS("after")), PrintName("a")>>)
RuntimeErrorInputs == {RuntimeErrorInput(kind, place, twice) :
                          kind \in ErrKinds, place \in {"top", "block", "fun", "loop"},
                          twice \in BOOLEAN}


\* References from a method to what is around it:
\*   var g = "g"; { class A {} var x = "x"; class B [< A] { m(p) { REF } }
\*                  B().m("p"); print A; print x; }
\* REF is  print x;  print this;  print p;  print g;  or
\* fun n() { print x; print this; } n();
FrameRefs == {"local", "this", "param", "global", "nested"}
FrameRef(ref) ==
    CASE ref = "local" -> <<PrintName("x")>>
      [] ref = "this" -> <<NPrint(NThis)>>
      [] ref = "param" -> <<PrintName("p")>>
      [] ref = "global" -> <<PrintName("g")>>
      [] ref = "nested" -> <<NFunction(7, "n", <<>>, <<PrintName("x"), NPrint(NThis)>>),
                             CallName("n", <<>>)>>
FrameExpect(ref) ==
    CASE ref = "local" -> <<"x">>
      [] ref = "this" -> <<"<class-instance B>">>
      [] ref = "param" -> <<"p">>
      [] ref = "global" -> <<"g">>
      [] ref = "nested" -> <<"x", "<class-instance B>">>
FramesInput(super, ref) ==
    Input("frames", [super |-> super, ref |-> ref],
          <<NVar(1, "g", LitS("g")),
            NBlock(<<NClass(2, "A", NNil, <<>>, <<>>),
                     NVar(3, "x", LitS("x")),
                     NClass(4, "B", IF super THEN NSuperClassName("A") ELSE NNil,
                            <<NFunction(5, "m", <<"p">>, FrameRef(ref))>>, <<>>),
                     NExpression(NCall(NGet(NCall(NVariable("B"), <<>>), "m"), <<LitS("p")>>)),
                     PrintName("A"), PrintName("x")>>)>>)
FramesInputs == {FramesInput(super, ref) : super \in BOOLEAN, ref \in FrameRefs}


\* for (var i = 0; i < 3; i = i + 1) { print i; [i = i + 1;] }
\* at top level, in a block, or in the body of a function that is called
ForVarLoop(assign) ==
    NFor(NVar(1, "i", LitN(0)), LessThan("i", 3), IncI,
         NBlock(<<PrintName("i")>> \o (IF assign THEN <<NExpression(IncI)>> ELSE <<>>)))
ForVarInput(place, assign) ==
    Input("forvar", [place |-> place, assign |-> assign],
          CASE place = "top" -> <<ForVarLoop(assign)>>
            [] place = "block" -> <<NBlock(<<ForVarLoop(assign)>>)>>
            [] place = "fun" -> <<NFunction(2, "f", <<>>, <<ForVarLoop(assign)>>),
                                  CallName("f", <<>>)>>)
ForVarInputs == {ForVarInput(place, assign) :
                    place \in {"top", "block", "fun"}, assign \in BOOLEAN}


\* Comma expressions whose operands have side effects, after
\*   fun a() { print "a"; return 1; } fun b() { print "b"; return 2; } var n = 0;
\* "calls":  print (a(), b());      "assign":  print (n = n + 1, n); print n;
\* "mixed":  print (n = n + 1, b()); print n;
CommaKinds == {"calls", "assign", "mixed"}
IncN == NAssign("n", NBinary(NVariable("n"), "+", LitN(1)))
CallOf(name) == NCall(NVariable(name), <<>>)
CommaText(kind) ==
    CASE kind = "calls" -> <<NPrint(NGrouping(NBinary(CallOf("a"), ",", CallOf("b"))))>>
      [] kind = "assign" -> <<NPrint(NGrouping(NBinary(IncN, ",", NVariable("n")))),
                              PrintName("n")>>
      [] kind = "mixed" -> <<NPrint(NGrouping(NBinary(IncN, ",", CallOf("b")))),
                             PrintName("n")>>
CommaExpect(kind) ==
    CASE kind = "calls" -> <<"a", "b", "2">>
      [] kind = "assign" -> <<"1", "1">>
      [] kind = "mixed" -> <<"b", "2", "1">>
CommaInput(kind) ==
    Input("comma", [kind |-> kind],
          <<NFunction(1, "a", <<>>, <<NPrint(LitS("a")), NReturn(LitN(1))>>),
            NFunction(2, "b", <<>>, <<NPrint(LitS("b")), NReturn(LitN(2))>>),
            NVar(3, "n", LitN(0))>> \o CommaText(kind))
CommaInputs == {CommaInput(kind) : kind \in CommaKinds}


\* Calls whose callee and arguments print when they are evaluated:
\*   fun two(p, q) { print "called"; }
\*   fun c() { print "callee"; return TARGET; }
\*   fun x1() { print "1"; return 1; } ... fun bad() { print "bad"; return -"s"; }
\*   c()(x1(), .., bad(), .., xn());  print "end";
\* TARGET is two, the string "s" (not callable), or -"s" (the callee fails);
\* bad() stands at argument errAt (0: no argument fails).
MaxArgs == 3
CallTargets == {"two", "string", "fails"}
ArgName(i) == "x" \o ToString(i)
ArgFunction(i) == NFunction(10 + i, ArgName(i), <<>>, <<NPrint(LitS(ToString(i))), NReturn(LitN(i))>>)
MinusString == NUnary("-", LitS("s"))
CallArguments(n, errAt) == [i \in 1..n |-> IF i = errAt THEN CallOf("bad") ELSE CallOf(ArgName(i))]
CallOrderInput(target, n, errAt) ==
    Input("callorder", [target |-> target, n |-> n, errAt |-> errAt],
          <<NFunction(1, "two", <<"p", "q">>, <<NPrint(LitS("called"))>>),
            NFunction(2, "c", <<>>,
                      <<NPrint(LitS("callee")),
                        NReturn(CASE target = "two" -> NVariable("two")
                                  [] target = "string" -> LitS("s")
                                  [] target = "fails" -> MinusString)>>),
            NFunction(3, "bad", <<>>, <<NPrint(LitS("bad")), NReturn(MinusString)>>)>>
          \o [i \in 1..MaxArgs |-> ArgFunction(i)]
          \o <<NExpression(NCall(CallOf("c"), CallArguments(n, errAt))),
               NPrint(LitS("end"))>>)
CallOrderInputs == {CallOrderInput(target, n, errAt) :
                       target \in CallTargets, n \in 0..MaxArgs, errAt \in 0..MaxArgs}
CallOrderOut(target, n, errAt) ==
    <<"callee">> \o
    (IF target = "fails" THEN <<>>
     ELSE IF errAt \in 1..n THEN [i \in 1..errAt |-> IF i = errAt THEN "bad" ELSE ToString(i)]
     ELSE [i \in 1..n |-> ToString(i)] \o (IF target = "two" /\ n = 2 THEN <<"called">> ELSE <<>>))
    \o <<"end">>
CallOrderErr(target, n, errAt) ==
    IF target = "fails" \/ errAt \in 1..n THEN <<"Operand must be a number\n[line 1]">>
    ELSE IF target = "string" THEN <<"Can only call functions and classes.\n[line 1]">>
    ELSE IF n # 2 THEN <<"Expected 2 arguments but got " \o ToString(n) \o ".\n[line 1]">>
    ELSE <<>>


\* Jumps and returns under loops, blocks and calls.  The callee of kind
\*   "return":   fun f(n) { for (;;) { while (true) { { if (n == 1) return "r";
\*                                                      n = n + 1; } } } }
\*   "break":    fun f(n) { while (true) { break; } print "f-after"; }
\*   "continue": fun f(n) { for (; n < 1; n = n + 1) { continue; } print "f-after"; }
\*   "getter":   class C { g { while (true) { return "r"; } } }     read as C().g
\*   "init":     class C { init() { while (true) { { return; } } } }   called as C()
\* is called from a loop:
\*   var k = 0; while (k < 2) { k = k + 1; print CALL; print "next"; } print "end";
SignalKinds == {"return", "break", "continue", "getter", "init"}
Forever(body) == NWhile(NLiteral(Bool(TRUE)), body)
SignalCallee(kind) ==
    CASE kind = "return" ->
           NFunction(1, "f", <<"n">>,
                     <<NFor(NNil, NNil, NNil,
                            NBlock(<<Forever(NBlock(<<NBlock(
                                <<NIf(NBinary(NVariable("n"), "==", LitN(1)),
                                      NReturn(LitS("r")), NNil),
                                  NExpression(NAssign("n", NBinary(NVariable("n"), "+",
                                                                   LitN(1))))>>)>>))>>))>>)
      [] kind = "break" ->
           NFunction(1, "f", <<"n">>, <<Forever(NBlock(<<NBreak>>)), NPrint(LitS("f-after"))>>)
      [] kind = "continue" ->
           NFunction(1, "f", <<"n">>,
                     <<NFor(NNil, LessThan("n", 1),
                            NAssign("n", NBinary(NVariable("n"), "+", LitN(1))),
                            NBlock(<<NContinue>>)),
                       NPrint(LitS("f-after"))>>)
      [] kind = "getter" ->
           NClass(1, "C", NNil,
                  <<[NProperty("g", <<Forever(NBlock(<<NReturn(LitS("r"))>>))>>)
                     EXCEPT !.id = 2]>>, <<>>)
      [] kind = "init" ->
           NClass(1, "C", NNil,
                  <<NFunction(2, "init", <<>>,
                              <<Forever(NBlock(<<NBlock(<<NReturn(NNil)>>)>>))>>)>>, <<>>)
SignalCall(kind) ==
    CASE kind \in {"return", "break", "continue"} -> NCall(NVariable("f"), <<LitN(0)>>)
      [] kind = "getter" -> NGet(NCall(NVariable("C"), <<>>), "g")
      [] kind = "init" -> NCall(NVariable("C"), <<>>)
SignalExpect(kind) ==
    CASE kind \in {"return", "getter"} -> <<"r", "next">>
      [] kind \in {"break", "continue"} -> <<"f-after", "<nil>", "next">>
      [] kind = "init" -> <<"<class-instance C>", "next">>
SignalInput(kind) ==
    Input("signal", [kind |-> kind],
          <<SignalCallee(kind), NVar(5, "k", LitN(0)),
            NWhile(LessThan("k", 2),
                   NBlock(<<NExpression(NAssign("k", NBinary(NVariable("k"), "+", LitN(1)))),
                            NPrint(SignalCall(kind)), NPrint(LitS("next"))>>)),
            NPrint(LitS("end"))>>)
SignalInputs == {SignalInput(kind) : kind \in SignalKinds}


\* Assignments to a name that is or is not defined:
\*   [var x = 0;]  print "before";  print (x = 1);  print "after";  print x;
\* with the two statements in the middle at top level, in a block after
\* "var b = 0; print (b = 2);", or in a function f(p) after "print (p = 2);".
AssignPlaces == {"top", "block", "fun"}
AssignBody == <<NPrint(NGrouping(NAssign("x", LitN(1)))), NPrint(LitS("after"))>>
AssignPlaced(place) ==
    CASE place = "top" -> AssignBody
      [] place = "block" ->
            <<NBlock(<<NVar(2, "b", LitN(0)), NPrint(NGrouping(NAssign("b", LitN(2))))>>
                     \o AssignBody)>>
      [] place = "fun" ->
            <<NFunction(3, "f", <<"p">>,
                        <<NPrint(NGrouping(NAssign("p", LitN(2))))>> \o AssignBody),
              CallName("f", <<LitN(0)>>)>>
AssignInput(place, defined) ==
    Input("assign", [place |-> place, defined |-> defined],
          (IF defined THEN <<NVar(1, "x", LitN(0))>> ELSE <<>>)
          \o <<NPrint(LitS("before"))>> \o AssignPlaced(place) \o <<PrintName("x")>>)
AssignInputs == {AssignInput(place, defined) : place \in AssignPlaces, defined \in BOOLEAN}
AssignLocal(place) == IF place = "top" THEN <<>> ELSE <<"2">>
\* the names the texts of the model assign to or read
AssignNames == {"x", "a", "nope", "i"}


\* Operators that need numbers, on numbers and on other values:
\*   print LHS op RHS;  print "end";       (print -RHS; for unary minus)
\* LHS is 4, "s", nil or clock(); RHS is 2, "s", nil or clock().
NumOps == {"neg", "-", "*", "/", "**", ">", ">=", "<", "<="}
NumKinds == {"number", "string", "nil", "clock"}
NumOperand(kind, n) ==
    CASE kind = "number" -> LitN(n)
      [] kind = "string" -> LitS("s")
      [] kind = "nil" -> LitNil
      [] kind = "clock" -> NCall(NVariable("clock"), <<>>)
NumInput(op, lhs, rhs) ==
    Input("numop", [op |-> op, lhs |-> lhs, rhs |-> rhs],
          <<NPrint(IF op = "neg" THEN NUnary("-", NumOperand(rhs, 2))
                   ELSE NBinary(NumOperand(lhs, 4), op, NumOperand(rhs, 2))),
            NPrint(LitS("end"))>>)
NumInputs == {NumInput(op, lhs, rhs) : op \in NumOps \ {"neg"}, lhs \in NumKinds, rhs \in NumKinds}
             \cup {NumInput("neg", "number", rhs) : rhs \in NumKinds}
\* what 4 op 2 (and -2) prints
NumResult(op) ==
    CASE op = "neg" -> "-2"
      [] op = "-" -> "2"
      [] op = "*" -> "8"
      [] op = "/" -> "2"
      [] op = "**" -> "16"
      [] op \in {">", ">="} -> "true"
      [] op \in {"<", "<="} -> "false"
\* the operands checkNumberOperand is meant to let through
NumLike(p) == /\ p.rhs \in {"number", "clock"}
              /\ p.op # "neg" => p.lhs \in {"number", "clock"}
NumClock(p) == p.rhs = "clock" \/ (p.op # "neg" /\ p.lhs = "clock")

\* the files golox is run on, and the texts the harness is run on (its
\* global environment has no clock)
AllInputs == LexicalInputs \cup UninitInputs \cup RedeclareInputs \cup ArityInputs
             \cup InitInputs \cup InheritInputs \cup UnusedInputs \cup ExitInputs
             \cup ResolverInputs \cup JumpInputs \cup LoopInputs \cup EqualInputs
             \cup TruthInputs \cup LogicalInputs \cup GetterInputs
             \cup SetInputs
             \cup RuntimeErrorInputs
             \cup FramesInputs
             \cup ForVarInputs
             \cup CommaInputs
             \cup CallOrderInputs
             \cup SignalInputs
             \cup AssignInputs
             \cup NumInputs
FileInputs == {input \in AllInputs : input.family = "inherit" => ~input.p.inBlock}
TestInputs == {input \in AllInputs : /\ input.family # "exit"
                                     /\ input.family \notin {"return", "this", "super", "jump"}
                                     /\ input.family = "arity" => input.p.callee # "native"
                                     /\ input.family = "equal" =>
                                            "clock" \notin {input.p.a.name, input.p.b.name}
                                     /\ input.family = "numop" => ~NumClock(input.p)
                                     /\ input.family = "truth" =>
                                            input.p.x.name \notin {"clock", "clock()"}}
              \cup {ExitInput("scan")}
\* the lines typed at the prompt
PromptInputs == {ExitInput(kind) : kind \in {"ok", "runtime", "semantic", "scan", "parse"}}
                \cup {UninitInput("global", FALSE), LexicalInput(5)}
                \cup {ReplInput("define"), ReplInput("use")}

(***************************************************************************)
(* package main, and the test harness testInterpreterOutput.               *)
(* mode: "usage" (more than one argument), "file" (one), "prompt" (none),  *)
(* "test" (testInterpreterOutput).  pc is the position inside main/run.    *)
(***************************************************************************)
NoInput == Input("", [v |-> 0], <<>>)
NoResolution == [Unused |-> {}, err |-> "", done |-> FALSE]

Init ==
    /\ mode \in {"usage", "file", "prompt", "test"}
    /\ pc = "main"
    /\ src = NoInput
    /\ statements = <<>>
    /\ resolution = NoResolution
    /\ st = GlobalsInit(0)
    /\ stderr = <<>>
    /\ parseHadError = FALSE
    /\ runtimeHadError = FALSE
    /\ semanticHadError = FALSE
    /\ exitCode = -1
    /\ idx = 0
    /\ reportLeft = {}
    /\ linesRead = 0

\* the process ends with this exit code
Exit(code) == pc' = "exit" /\ exitCode' = code

\* an unrecovered panic: the Go runtime exits with code 2
PanicExit(msg) == /\ Exit(2)
                  /\ stderr' = Append(stderr, "panic: " \o msg)

\* main with more than one argument
MainUsage ==
    /\ pc = "main" /\ mode = "usage"
    /\ st' = [st EXCEPT !.out = Append(@, "Usage: ./golox [script]")]
    /\ Exit(64)
    /\ UNCHANGED <<mode, src, statements, resolution, stderr, parseHadError,
                   runtimeHadError, semanticHadError, idx, reportLeft, linesRead>>

\* run's first lines: a new Scanner over the source
StartRun(input) ==
    /\ src' = input
    /\ statements' = <<>>
    /\ resolution' = NoResolution
    /\ idx' = 0
    /\ reportLeft' = {}
    /\ pc' = "scan"

\* runFile: the file is read and run is entered
RunFile ==
    /\ pc = "main" /\ mode = "file"
    /\ \E input \in FileInputs :
          /\ StartRun(input)
          /\ st' = [st EXCEPT !.now = input.now]
    /\ UNCHANGED <<mode, stderr, parseHadError, runtimeHadError, semanticHadError,
                   exitCode, linesRead>>

\* runPrompt: one more line is read and run is entered
ReadLine ==
    /\ pc = "main" /\ mode = "prompt" /\ linesRead < MaxLines
    /\ \E input \in PromptInputs :
          /\ StartRun(input)
          /\ st' = [st EXCEPT !.now = input.now]
    /\ linesRead' = linesRead + 1
    /\ UNCHANGED <<mode, stderr, parseHadError, runtimeHadError, semanticHadError, exitCode>>

\* runPrompt: ReadBytes fails at the end of the input and check panics
ReadEOF ==
    /\ pc = "main" /\ mode = "prompt" /\ linesRead = MaxLines
    /\ PanicExit("EOF")
    /\ UNCHANGED <<mode, src, statements, resolution, st, parseHadError, runtimeHadError,
                   semanticHadError, idx, reportLeft, linesRead>>

\* testInterpreterOutput: a new Writer and a new global environment
TestHarness ==
    /\ pc = "main" /\ mode = "test"
    /\ \E input \in TestInputs :
          /\ StartRun(input)
          /\ st' = [NewGlobal EXCEPT !.now = input.now]
    /\ UNCHANGED <<mode, stderr, parseHadError, runtimeHadError, semanticHadError,
                   exitCode, linesRead>>

\* parseerror.LogMessage / LogError, called n times
LogErrors(n) ==
    /\ parseHadError' = (parseHadError \/ n > 0)
    /\ stderr' = IF n > 0 THEN Append(stderr, "[line 1] Error") ELSE stderr

\* scanner.ScanTokens
ScanTokens ==
    /\ pc = "scan"
    /\ LogErrors(src.scanErrors)
    /\ pc' = "parse"
    /\ UNCHANGED <<mode, src, statements, resolution, st, runtimeHadError,
                   semanticHadError, exitCode, idx, reportLeft, linesRead>>

\* a run that does not look at parseerror.HadError
AfterParseResolve(hadError) == "resolve"

\* where run goes after parser.Parse: it returns if an error was logged
AfterParse(hadError) == IF hadError THEN "return" ELSE "resolve"

\* parser.Parse, and run's check of parseerror.HadError; the harness has none
Parse ==
    /\ pc = "parse"
    /\ LogErrors(src.parseErrors)
    /\ statements' = src.stmts
    /\ pc' = IF mode = "test" THEN "resolve" ELSE AfterParse(parseHadError')
    /\ UNCHANGED <<mode, src, resolution, st, runtimeHadError, semanticHadError,
                   exitCode, idx, reportLeft, linesRead>>

\* where run goes after semantic.Resolve
AfterResolve(res) ==
    IF res.err # "" \/ semanticHadError THEN "return"
    ELSE IF res.Unused # {} THEN "report"
    ELSE "interpret"

\* semantic.Resolve; run prints the error it returns; the harness drops it
ResolveStep ==
    /\ pc = "resolve"
    /\ \E res \in {Resolve(statements)} :
          /\ statements' = res.statements
          /\ resolution' = [Unused |-> res.Unused, err |-> res.err, done |-> TRUE]
          /\ pc' = IF mode = "test" THEN "interpret" ELSE AfterResolve(res)
          /\ reportLeft' = res.Unused
          /\ st' = IF mode # "test" /\ AfterResolve(res) = "return"
                   THEN [st EXCEPT !.out = Append(@, res.err)]
                   ELSE st
    /\ idx' = 1
    /\ UNCHANGED <<mode, src, stderr, parseHadError, runtimeHadError, semanticHadError,
                   exitCode, linesRead>>

\* the line run prints for an unused statement; "" for a type it does not expect
UnusedLine(stmt) ==
    CASE stmt.k = "Var" -> "Unused variable \"" \o stmt.Name \o "\" [Line: " \o ToString(Line) \o "]"
      [] stmt.k = "Function" -> "Unused function \"" \o stmt.Name \o "\" [Line: " \o ToString(Line) \o "]"
      [] OTHER -> ""

\* one iteration of run's loop over resolution.Unused (a Go map: any order)
ReportUnused ==
    /\ pc = "report" /\ reportLeft # {}
    /\ \E stmt \in reportLeft :
          /\ reportLeft' = reportLeft \ {stmt}
          /\ IF UnusedLine(stmt) # ""
             THEN /\ st' = [st EXCEPT !.out = Append(@, UnusedLine(stmt))]
                  /\ UNCHANGED <<pc, exitCode, stderr>>
             ELSE /\ PanicExit("Unexpected ast.Node type")
                  /\ st' = st
    /\ UNCHANGED <<mode, src, statements, resolution, parseHadError, runtimeHadError,
                   semanticHadError, idx, linesRead>>

\* the loop ends: the error run makes is assigned and never used
ReportDone ==
    /\ pc = "report" /\ reportLeft = {}
    /\ pc' = "return"
    /\ UNCHANGED <<mode, src, statements, resolution, st, stderr, parseHadError,
                   runtimeHadError, semanticHadError, exitCode, idx, reportLeft, linesRead>>

\* one iteration of Interpret's loop.  A panic ends the process; so does
\* err.Error() on a control-flow signal, whose embedded error is nil.
\* an Interpret that returns at the first statement that fails
AfterStatementStop(i, n, failed) == IF failed THEN n + 1 ELSE i + 1

\* the statement Interpret's loop goes to after statement i of n
AfterStatement(i, n, failed) == i + 1

InterpretStmt ==
    /\ pc = "interpret" /\ idx <= Len(statements)
    /\ \E x \in {Eval(statements[idx], st.GlobalEnv, st)} :
          /\ st' = x.st
          /\ idx' = AfterStatement(idx, Len(statements), x.err # NoErr)
          /\ IF x.err = NoErr
             THEN UNCHANGED <<pc, exitCode, stderr, runtimeHadError>>
             ELSE IF x.err.k = "error"
             THEN /\ stderr' = Append(stderr, x.err.msg)      \* runtimeerror.Print
                  /\ runtimeHadError' = TRUE
                  /\ UNCHANGED <<pc, exitCode>>
             ELSE /\ PanicExit(IF x.err.k = "panic" THEN x.err.msg
                               ELSE "nil pointer dereference")
                  /\ UNCHANGED runtimeHadError
    /\ UNCHANGED <<mode, src, statements, resolution, parseHadError, semanticHadError,
                   reportLeft, linesRead>>

\* Interpret returns
InterpretDone ==
    /\ pc = "interpret" /\ idx > Len(statements)
    /\ pc' = "return"
    /\ UNCHANGED <<mode, src, statements, resolution, st, stderr, parseHadError,
                   runtimeHadError, semanticHadError, exitCode, idx, reportLeft, linesRead>>

\* the exit code of runFile once run has returned
FileExitCode == IF parseHadError THEN 65
                ELSE IF runtimeHadError \/ semanticHadError THEN 70
                ELSE 0

\* run has returned to runFile
RunFileReturn ==
    /\ pc = "return" /\ mode = "file"
    /\ Exit(FileExitCode)
    /\ UNCHANGED <<mode, src, statements, resolution, st, stderr, parseHadError,
                   runtimeHadError, semanticHadError, idx, reportLeft, linesRead>>

\* a prompt that leaves an error flag as the line left it
FlagKept(flag) == flag

\* the value runPrompt gives an error flag once run has returned
FlagAfterLine(flag) == FALSE

\* run has returned to runPrompt: the three flags are reset
RunPromptReturn ==
    /\ pc = "return" /\ mode = "prompt"
    /\ parseHadError' = FlagAfterLine(parseHadError)
    /\ runtimeHadError' = FlagAfterLine(runtimeHadError)
    /\ semanticHadError' = FlagAfterLine(semanticHadError)
    /\ pc' = "main"
    /\ UNCHANGED <<mode, src, statements, resolution, st, stderr, exitCode, idx,
                   reportLeft, linesRead>>

\* Interpret has returned to testInterpreterOutput
TestReturn ==
    /\ pc = "return" /\ mode = "test"
    /\ Exit(0)
    /\ UNCHANGED <<mode, src, statements, resolution, st, stderr, parseHadError,
                   runtimeHadError, semanticHadError, idx, reportLeft, linesRead>>

Next ==
    \/ MainUsage
    \/ RunFile
    \/ ReadLine
    \/ ReadEOF
    \/ TestHarness
    \/ ScanTokens
    \/ Parse
    \/ ResolveStep
    \/ ReportUnused
    \/ ReportDone
    \/ InterpretStmt
    \/ InterpretDone
    \/ RunFileReturn
    \/ RunPromptReturn
    \/ TestReturn

Spec == Init /\ [][Next]_vars

(***************************************************************************)
(* Properties.                                                             *)
(***************************************************************************)
Range(f) == {f[i] : i \in DOMAIN f}

\* Interpret was called on the input and has returned
RunInterpreted ==
    /\ pc = "return" /\ resolution.done
    /\ mode = "test" \/ (resolution.err = "" /\ resolution.Unused = {})

\* the process, or the harness, started on one input and has ended
Ended == mode \in {"file", "test"} /\ pc \in {"return", "exit"}

\* C1: a variable reference inside a function body reads the binding that was
\* lexically in scope where the function was declared, whatever is declared
\* or called afterwards: every text of the lexical family prints what its
\* lexical bindings hold.
LexicalScoping ==
    (src.family = "lexical" /\ mode \in {"file", "test"} /\ RunInterpreted)
        => st.out = src.p.expect

\* C2: reading a variable declared without initializer before any assignment
\* is the runtime error "Uninitialized variable access: 'x'" and no value,
\* for a global and for a local slot of a block or function; after an
\* assignment the read succeeds.
UninitializedRead ==
    (src.family = "uninit" /\ mode \in {"file", "test"} /\ RunInterpreted)
        => IF src.p.assigned
           THEN st.out = <<"1">> /\ stderr = <<>>
           ELSE st.out = <<>> /\ stderr = <<Make("Uninitialized variable access: 'x'").msg>>

\* C3: Resolve returns "Variable 'a' already declared in this scope." when a
\* var, function, class or parameter declaration repeats a name of the same
\* local scope, and no error when the scope is the global one.
RedeclarationError ==
    (src.family = "redeclare" /\ resolution.done)
        => resolution.err = IF src.p.local
                            THEN "Variable 'a' already declared in this scope."
                            ELSE ""

InitReturnsInstance ==
    src.family = "init" =>
        /\ exitCode # 2
        /\ (mode \in {"file", "test"} /\ RunInterpreted) =>
              /\ st.out = <<"true", "true", "true">>
              /\ stderr = <<>>
              /\ Len(st.insts) = 1

InitReturnsInstanceWitness ==
    /\ src.family = "init" /\ src.p.bareReturn /\ src.p.arity = 1 /\ mode = "file"
    /\ RunInterpreted
    /\ Len(st.out) = 3 /\ Len(st.insts) = 1

\* C6: a method looked up on an instance or through super is searched in the
\* class and then up the superclass chain: an inherited method can be
\* called, an override wins, super.greet() runs the superclass version.
InheritedLookup ==
    (src.family = "inherit" /\ Ended) => st.out = src.p.expect

\* C7: after Resolve succeeds the unused set holds exactly the local var,
\* function and class declarations that were never read or assigned;
\* global declarations and parameters are never in it.
UnusedExactly ==
    (src.family = "unused" /\ resolution.done /\ resolution.err = "")
        => resolution.Unused = src.p.locals \ src.p.referenced

\* C8: when resolution succeeds with a non-empty unused set, every unused
\* variable, function and class is reported and no statement is executed.
UnusedReported ==
    (src.family = "unused" /\ mode = "file" /\ resolution.done /\ resolution.Unused # {})
        => /\ pc # "interpret"
           /\ "ran" \notin Range(st.out)
           /\ exitCode # 2
           /\ pc \in {"return", "exit"} => Len(st.out) = Cardinality(resolution.Unused)

\* C9: in file mode the exit code is 65 if a scan or parse error occurred, 70
\* if a runtime or a semantic error occurred, 0 if none did; more than one
\* argument exits with 64.
ExitCodes ==
    /\ (mode = "usage" /\ pc = "exit") => exitCode = 64
    /\ (mode = "file" /\ pc = "exit" /\ exitCode # 2) =>
           exitCode = IF src.scanErrors + src.parseErrors > 0 THEN 65
                      ELSE IF resolution.err # "" \/ stderr # <<>> THEN 70
                      ELSE 0

\* C10: once the scanner or the parser has logged an error for an input,
\* neither the resolver nor the interpreter runs on it: nothing is printed
\* and no global variable is defined or changed.
ParseErrorSuppresses ==
    [][(mode # "test" /\ parseHadError')
          => /\ st' = st
             /\ pc' \in {"parse", "return", "exit"}
             /\ ~resolution'.done]_vars

ParseErrorSuppressesWitness ==
    /\ mode = "file" /\ pc = "exit" /\ exitCode = 65
    /\ src.scanErrors = 0 /\ src.parseErrors = 1
    /\ Len(statements) = 3 /\ ~resolution.done
    /\ st = GlobalsInit(0)

\* the last n entries of a sequence
LastN(seq, n) == SubSeq(seq, Len(seq) - n + 1, Len(seq))

\* C11: at the prompt the parse, semantic and runtime error flags are all
\* false whenever the next line is about to be read, and the globals an
\* earlier line defined (a variable, a function, a class) are visible to a
\* later line, also when a failed line stands between the two; without the
\* defining line the same reads are "Undefined variable" errors.
PromptRecovers ==
    mode = "prompt" =>
        /\ pc = "main" => (~parseHadError /\ ~runtimeHadError /\ ~semanticHadError)
        /\ (src.family = "repl" /\ src.p.kind = "use" /\ pc = "return") =>
              IF "defined" \in Range(st.out)
              THEN Len(st.out) >= 3 /\ LastN(st.out, 3) = <<"1", "2", "<class K>">>
              ELSE /\ Len(stderr) >= 3
                   /\ LastN(stderr, 3) = <<Make("Undefined variable 'v'").msg,
                                            Make("Undefined variable 'h'").msg,
                                            Make("Undefined variable 'K'").msg>>

\* the lines were: the definitions, a line that fails at run time, the uses
PromptRecoversWitness ==
    /\ mode = "prompt" /\ pc = "main" /\ linesRead = 3
    /\ src.family = "repl" /\ src.p.kind = "use"
    /\ st.out = <<"defined", "1", "1", "2", "<class K>">>
    /\ stderr = <<Make(operandMustBeANumber).msg>>
    /\ ~runtimeHadError

\* C12: Resolve returns "Cannot return from top-level code." for a return
\* outside every function and "Cannot return a value from an initializer."
\* for a return with a value directly inside a method named init; a bare
\* return in init and a value return in a function or another method (also
\* a function declared inside init) are accepted.
ReturnResolution ==
    (src.family = "return" /\ resolution.done) => resolution.err = src.p.expectErr

ReturnResolutionWitness ==
    /\ src.family = "return" /\ src.p.v = 7 /\ resolution.done
    /\ resolution.err = ReturnInitializer

\* C13: Resolve returns "Cannot use 'this' outside of a class." for a this
\* outside every class body (top level, function, nested function, after a
\* class) and "Cannot use 'this' outside instance initializers or methods."
\* for a this in the body of a class (static) method; in an instance method
\* or an initializer this is accepted.
ThisResolution ==
    (src.family = "this" /\ resolution.done) => resolution.err = src.p.expectErr

\* the same for the texts without a class method
ThisResolutionOutsideClass ==
    (src.family = "this" /\ src.p.expectErr # ThisInClassMethod /\ resolution.done)
        => resolution.err = src.p.expectErr

\* C14: Resolve returns "Cannot use 'super' outside of a class." for a
\* super.m outside every class body and "Cannot use 'super' in a class with
\* no superclass." for one in a method or getter of a class declared without
\* a superclass.
SuperResolution ==
    (src.family = "super" /\ resolution.done) => resolution.err = src.p.expectErr

\* the parser has run on a text with one break or continue
JumpParsed == src.family = "jump" /\ pc \notin {"main", "scan", "parse"}

BreakContinue ==
    (src.family = "loop" /\ Ended) =>
        /\ st.out = src.p.expect
        /\ stderr = <<>>
        /\ ~runtimeHadError /\ ~semanticHadError /\ ~parseHadError

\* for (; i < 2; i = i + 1) { j = 0; for (; j < 3; j = inc(j)) { print j;
\* if (j == 1) break; print "e"; } print j; print "o"; } print i;
BreakContinueWitness ==
    /\ src.family = "loop" /\ Ended /\ mode = "file"
    /\ src.p.outer = "for" /\ src.p.inner = "for" /\ src.p.kw = "break"
    /\ src.p.at = 1 /\ ~src.p.deep
    /\ st.out = <<"0", "e", "inc", "1", "1", "o", "0", "e", "inc", "1", "1", "o", "2">>

\* C17: for operands a and b of every kind (nil, booleans, numbers, strings,
\* functions, bound methods, the native function, classes, instances),
\* a == b and a != b evaluate without error, a == b is the negation of
\* a != b, nil is equal to nil only, values of different kinds are not
\* equal, and a == b is true exactly when a and b denote the same value.
EqualityTotal ==
    (src.family = "equal" /\ Ended) =>
        /\ stderr = <<>> /\ ~runtimeHadError /\ ~semanticHadError
        /\ Len(st.out) = 2
        /\ st.out[1] \in {"true", "false"} /\ st.out[2] \in {"true", "false"}
        /\ (st.out[1] = "true") <=> ~(st.out[2] = "true")
        /\ ("nil" \in {src.p.a.type, src.p.b.type}) =>
              ((st.out[1] = "true") <=> (src.p.a.type = "nil" /\ src.p.b.type = "nil"))
        /\ src.p.a.type # src.p.b.type => st.out[1] = "false"
        /\ (st.out[1] = "true") <=> SameValue(src.p.a, src.p.b)

\* print nil == false; print nil != false;
EqualityTotalWitness ==
    /\ src.family = "equal" /\ Ended /\ mode = "file"
    /\ src.p.a.name = "nil" /\ src.p.b.name = "false"
    /\ st.out = <<"false", "true">>

\* C18: a value is falsy exactly when it is nil or false; the number 0, the
\* empty string, functions, classes, instances and every other value are
\* truthy; !x is the boolean negation of the truthiness of x (and !!x the
\* truthiness itself), and the ternary and if take the branch accordingly.
Truthiness ==
    (src.family = "truth" /\ Ended) =>
        /\ stderr = <<>> /\ ~runtimeHadError /\ ~semanticHadError
        /\ st.out = IF src.p.falsy THEN <<"true", "false", "f", "else">>
                    ELSE <<"false", "true", "t", "then">>

\* print !0; print !!0; print 0 ? "t" : "f"; if (0) print "then"; else print "else";
TruthinessWitness ==
    /\ src.family = "truth" /\ Ended /\ mode = "test"
    /\ src.p.x.name = "0" /\ st.out = <<"false", "true", "t", "then">>

\* C19: a or b yields the value of a, and does not evaluate b, when a is
\* truthy, and otherwise yields the value of b; a and b yields the value of
\* a, and does not evaluate b, when a is falsy, and otherwise yields the value
\* of b; what is yielded is the operand's value itself, not a boolean made
\* from it.
ShortCircuit ==
    (src.family = "logical" /\ Ended) =>
        /\ stderr = <<>> /\ ~runtimeHadError /\ ~semanticHadError
        /\ st.out =
             IF src.p.left
             THEN <<Shown(src.p.a), "unset", "true", BoolText(SameValue(src.p.a, src.p.b))>>
             ELSE <<Shown(src.p.b), Shown(src.p.b),
                    BoolText(SameValue(src.p.a, src.p.b)), "true">>

\* var r = 0 or (side = "false"); prints 0, unset, true, false
ShortCircuitWitness ==
    /\ src.family = "logical" /\ Ended /\ mode = "file"
    /\ src.p.op = "or" /\ src.p.a.name = "0" /\ src.p.b.name = "sfalse"
    /\ st.out = <<"0", "unset", "true", "false">>

\* C20: reading a getter (a method declared without a parameter list) from
\* an instance runs its body at once, with this bound to that instance, and
\* yields what the body returns, not a function; reading a method declared
\* with a parameter list, also an empty one, yields a bound function and
\* does not run the body, which runs when the function is called.  The
\* parser tells the two apart by the presence of the parameter list.
GetterAccess ==
    /\ (src.family = "getter" /\ Ended) =>
          /\ stderr = <<>> /\ ~runtimeHadError /\ ~semanticHadError
          /\ st.out = <<"run g", GetterValue(src.p.ret, src.p.x), "got", "m",
                        "run m", GetterValue(src.p.ret, src.p.x),
                        "run g", BoolText(src.p.ret = "field")>>
    /\ (src.family = "getter" /\ ~src.p.inBlock /\ pc = "resolve") =>
          \A i \in 1..2 :
              /\ ParseTokens(GetterTokens).statements[1].Methods[i].Name =
                    statements[1].Methods[i].Name
              /\ IsProperty(ParseTokens(GetterTokens).statements[1].Methods[i]) =
                    IsProperty(statements[1].Methods[i])

\* print o2.g; prints "run g" and 8, the field of o2
GetterAccessWitness ==
    /\ src.family = "getter" /\ Ended /\ mode = "file"
    /\ src.p.ret = "field" /\ src.p.x = "o2" /\ ~src.p.inBlock
    /\ st.out = <<"run g", "8", "got", "m", "run m", "8", "run g", "true">>


\* C21: obj.f = v on an instance stores v under field f of the instance, and
\* the value of the assignment expression is v: print (o.fld = v); prints v,
\* and o.fld read afterwards is v.
SetYieldsValue ==
    (src.family = "set" /\ Ended) =>
        /\ stderr = <<>> /\ ~runtimeHadError
        /\ st.out = <<Shown(src.p.x), Shown(src.p.x), "true">>

\* the part about the field: what is read afterwards is the value stored
SetStoresValue ==
    (src.family = "set" /\ Ended) =>
        /\ stderr = <<>> /\ ~runtimeHadError
        /\ Len(st.out) = 3 /\ st.out[2] = Shown(src.p.x) /\ st.out[3] = "true"


\* C22: a runtime error ends only the top-level statement it occurs in:
\* Interpret prints the message, sets the runtime-error flag and goes on with
\* the next top-level statement; what the failed statement wrote and printed
\* before the error stays, what came after the error in it is not run, and
\* every later top-level statement runs, in order (golox then exits with 70).
RuntimeErrorContinues ==
    (src.family = "rterr" /\ Ended) =>
        /\ st.out = <<"before", "in", "2", "after", "2">>
        /\ stderr = IF src.p.twice THEN <<ErrMessage(src.p.kind), ErrMessage(src.p.kind)>>
                    ELSE <<ErrMessage(src.p.kind)>>
        /\ runtimeHadError
        /\ (mode = "file" /\ pc = "exit") => exitCode = 70

\* ... fun g() { a = 2; print "in"; f(1); print "skipped"; a = 3; } g(); print a; f(1); ...
RuntimeErrorContinuesWitness ==
    /\ src.family = "rterr" /\ mode = "file" /\ pc = "exit" /\ exitCode = 70
    /\ src.p.kind = "arity" /\ src.p.place = "fun" /\ src.p.twice
    /\ st.out = <<"before", "in", "2", "after", "2">>
    /\ Len(stderr) = 2


\* C23: in a program the resolver accepts, a resolved reference (depth >= 0)
\* made from a method finds, depth frames up the chain, the frame of the
\* scope that declared the name, with the index inside its slots, also when
\* the class has a superclass: the method of B reads the local x of the
\* enclosing block, this, its parameter and a global, directly and from a
\* nested function, and the run prints their values without a panic.
FrameLookup ==
    (src.family = "frames" /\ Ended) =>
        /\ resolution.err = ""
        /\ stderr = <<>>
        /\ st.out = FrameExpect(src.p.ref) \o <<"<class A>", "x">>

\* the same for the methods of a class without a superclass
FrameLookupNoSuper ==
    (src.family = "frames" /\ ~src.p.super /\ Ended) =>
        /\ resolution.err = ""
        /\ stderr = <<>>
        /\ st.out = FrameExpect(src.p.ref) \o <<"<class A>", "x">>


\* C24: a variable declared in the initializer of a for loop is read and
\* assigned from the condition, the increment and the body, wherever the loop
\* stands (top level, block, function body): the loop over i from 0 below 3
\* prints 0 1 2, or 0 2 when the body increments i as well, without an error.
ForVariable ==
    (src.family = "forvar" /\ Ended) =>
        /\ resolution.err = "" /\ stderr = <<>> /\ ~runtimeHadError
        /\ st.out = IF src.p.assign THEN <<"0", "2">> ELSE <<"0", "1", "2">>

\* the same for the loop at top level
ForVariableTopLevel ==
    (src.family = "forvar" /\ src.p.place = "top" /\ Ended) =>
        /\ resolution.err = "" /\ stderr = <<>> /\ ~runtimeHadError
        /\ st.out = IF src.p.assign THEN <<"0", "2">> ELSE <<"0", "1", "2">>


\* C25: a comma expression a , b evaluates a, then b, each once, and yields
\* the value of b: the prints, calls and assignments in a and b happen once
\* for each evaluation of the expression.
CommaOnce ==
    (src.family = "comma" /\ Ended) =>
        /\ stderr = <<>> /\ ~runtimeHadError
        /\ st.out = CommaExpect(src.p.kind)

\* the part about the value: what print writes for a , b is the value that b
\* yields (2 for b(), the value of n for n)
CommaYieldsRight ==
    (src.family = "comma" /\ Ended /\ src.p.kind # "assign") =>
        /\ stderr = <<>> /\ ~runtimeHadError
        /\ \E i \in 1..Len(st.out) : st.out[i] = "2" /\ (i = 1 \/ st.out[i - 1] = "b")


\* C26: a call evaluates the callee, then the arguments from left to right,
\* and stops at the first argument that fails: the arguments after it are not
\* evaluated and no call is made.  Whether the callee can be called and
\* whether the number of arguments is its arity is checked after all
\* arguments were evaluated, so what they print is there when "Can only call
\* functions and classes." or "Expected 2 arguments but got n." is raised.
CallOrder ==
    (src.family = "callorder" /\ Ended) =>
        /\ st.out = CallOrderOut(src.p.target, src.p.n, src.p.errAt)
        /\ stderr = CallOrderErr(src.p.target, src.p.n, src.p.errAt)

\* c()(x1(), bad(), x3()); with c returning the string "s"
CallOrderWitness ==
    /\ src.family = "callorder" /\ Ended /\ mode = "file"
    /\ src.p.target = "string" /\ src.p.n = 3 /\ src.p.errAt = 2
    /\ st.out = <<"callee", "1", "bad", "end">>
    /\ stderr = <<"Operand must be a number\n[line 1]">>


\* the control-flow signals
Signals == {"returnError", "breakError", "continueError"}

\* C27: in a program that parser and resolver accept, a return is consumed
\* by the call of the function it stands in, through the loops and blocks
\* between, a break or continue by the loop around it, and neither leaves a
\* function call: no top-level statement hands a signal to Interpret's loop,
\* and the loop that calls goes on after the call.
SignalsContained ==
    /\ (/\ pc = "interpret" /\ idx <= Len(statements)
        /\ src.parseErrors = 0 /\ src.scanErrors = 0 /\ resolution.err = "") =>
            Eval(statements[idx], st.GlobalEnv, st).err.k \notin Signals
    /\ (src.family = "signal" /\ Ended) =>
          /\ stderr = <<>>
          /\ st.out = SignalExpect(src.p.kind) \o SignalExpect(src.p.kind) \o <<"end">>

\* the return under a for, a while and two blocks, called twice from a loop
SignalsContainedWitness ==
    /\ src.family = "signal" /\ src.p.kind = "return" /\ Ended /\ mode = "file"
    /\ st.out = <<"r", "next", "r", "next", "end">>


\* C28: assigning to a name that is not defined (unresolved, and in no frame
\* of the chain up to the globals) is the runtime error "Undefined variable
\* 'X'." and changes no environment: in every reachable state and from every
\* frame, Assign on such a name returns the state it was given; the name is
\* still undefined afterwards (print x fails).  A successful assignment to a
\* global, a local or a parameter is an expression with the assigned value.
AssignUndefined ==
    /\ \A e \in 1..Len(st.envs) : \A name \in AssignNames :
          Get(st, e, name, -1).err = Make("Undefined variable '" \o name \o "'") =>
              Assign(st, e, name, -1, Num(1)) =
                  [st |-> st, err |-> Make("Undefined variable '" \o name \o "'.")]
    /\ (src.family = "assign" /\ Ended) =>
          IF src.p.defined
          THEN /\ stderr = <<>>
               /\ st.out = <<"before">> \o AssignLocal(src.p.place) \o <<"1", "after", "1">>
          ELSE /\ stderr = <<"Undefined variable 'x'.\n[line 1]",
                             "Undefined variable 'x'\n[line 1]">>
               /\ st.out = <<"before">> \o AssignLocal(src.p.place)
                           \o (IF src.p.place = "top" THEN <<"after">> ELSE <<>>)
               /\ \A e \in 1..Len(st.envs) : "x" \notin DOMAIN st.envs[e].values

\* fun f(p) { print (p = 2); print (x = 1); print "after"; } f(0); print x;
AssignUndefinedWitness ==
    /\ src.family = "assign" /\ src.p.place = "fun" /\ ~src.p.defined
    /\ mode = "file" /\ pc = "exit" /\ exitCode = 70
    /\ st.out = <<"before", "2">>
    /\ Len(stderr) = 2


\* C29: Resolve is idempotent on an AST it resolved without an error: run
\* again on the annotated statements it writes the same EnvDepth, EnvIndex
\* and EnvSize on every node (the statements come back as they went in) and
\* returns the same Unused set, again without an error.
ResolveTwice ==
    (resolution.done /\ resolution.err = "") =>
        Resolve(statements) = [statements |-> statements, Unused |-> resolution.Unused,
                               err |-> ""]

\* an AST with annotations and an unused declaration, resolved a second time
ResolveTwiceWitness ==
    /\ resolution.done /\ resolution.err = "" /\ pc = "interpret"
    /\ statements # src.stmts
    /\ resolution.Unused # {}
    /\ \E i \in 1..Len(statements) : statements[i].k = "Block" /\ statements[i].EnvSize > 0
    /\ Resolve(statements).Unused = resolution.Unused
    /\ Resolve(statements).statements = statements


\* C30: unary minus, -, *, /, ** and the comparisons never crash the
\* interpreter, whatever the operands are: the statement prints a number or
\* a boolean, or fails with the runtime error "Operand must be a number",
\* and the next statement runs; also when an operand is what clock() returns.
NumericNeverCrashes ==
    (src.family = "numop" /\ Ended) =>
        IF NumLike(src.p)
        THEN /\ stderr = <<>>
             /\ Len(st.out) = 2 /\ st.out[2] = "end"
             /\ ~NumClock(src.p) => st.out[1] = NumResult(src.p.op)
        ELSE /\ stderr = <<operandMustBeANumber \o "\n[line 1]">>
             /\ st.out = <<"end">>

\* the same for operands that are not the value of clock()
NumericChecked ==
    (src.family = "numop" /\ ~NumClock(src.p) /\ Ended) =>
        IF NumLike(src.p)
        THEN /\ stderr = <<>>
             /\ st.out = <<NumResult(src.p.op), "end">>
        ELSE /\ stderr = <<operandMustBeANumber \o "\n[line 1]">>
             /\ st.out = <<"end">>

=============================================================================
